---- MODULE Spec2Model ----
(***************************************************************************)
(* Model of the "Should I Move?" orchestration core:                       *)
(*   - the asynchronous request API (api.py): the in-memory store          *)
(*     analysis_results, the POST/GET/DELETE handlers and the background   *)
(*     task run_analysis, one step per statement of the task;              *)
(*   - the elicitation loop gather_user_information with its completeness  *)
(*     predicate has_comprehensive_info (coordination / cooperation);      *)
(*   - the Cooperate protocol as orchestrated by main() of the             *)
(*     cooperation variant;                                                *)
(*   - the report endpoint of api.py and the naming of reports;            *)
(*   - the tools of the sub-agents (cost-of-living lookup, Reddit search)  *)
(*     and the schemas of the structured outputs (sub_agents/).            *)
(***************************************************************************)
EXTENDS Integers, Sequences, FiniteSets, TLC

VARIABLES
    analysis_results,   \* api.py: the global in-memory store, id -> record
    tasks,              \* api.py: background tasks added by analyze_move
    response,           \* api.py: the HTTP response the current step sends
                        \* (NoResponse when the step is not a handler's)
    reports,            \* api.py: the directory "reports" as the report
                        \* endpoint finds it
    variant,            \* which script runs: "coordination" or "cooperation"
    el_pc,              \* gather_user_information / main: the statement reached
    conversation_history, \* gather_user_information: the transcript string
    question_count,     \* gather_user_information: rounds completed
    question_response,  \* gather_user_information: the question just asked
    comprehensive,      \* the value of the last has_comprehensive_info call
    loop_exception,     \* the exception caught at line 702, if any
    returned_at,        \* the return statement gather_user_information took
    user_profile,       \* main: what gather_user_information returned
    coop_pc,            \* 03-agno-cooperation.py main: the statement reached
    running,            \* main: the agent whose run() call is in progress
    started,            \* main: the agents whose run() has been called
    call_outcome,       \* how each agent's run() call ended
    agent_results,      \* main: the dict agent_results
    synthesis_context,  \* main: the findings put in the synthesis prompt
    decision,           \* what the team call printed
    tool_pc,            \* sub_agents tools: the statement a tool call reached
    current_city,       \* tools: the argument current_city
    desired_city,       \* tools: the argument desired_city
    CITY_DATABASE,      \* cost_analyst/tools.py: the loaded city table
    api_key,            \* search_reddit_discussions: local
    current_formatted,  \* get_cost_of_living_comparison: local
    desired_formatted,  \* get_cost_of_living_comparison: local
    scrape,             \* get_cost_of_living_comparison: how the scrape of
                        \* line 148 ended
    query_statuses,     \* search_reddit_discussions: how each query made so
                        \* far ended
    all_results,        \* search_reddit_discussions: local
    seen_urls,          \* search_reddit_discussions: local
    tool_return,        \* what the tool call returned
    output_schema,      \* Agent(output_schema=...): the schema of a run
    output_content,     \* the structured output the model produced
    validated,          \* what validation against the schema made of it
    timestamp,          \* 02-agno-router.py main: local
    filename            \* 02-agno-router.py main: local

apiVars == <<analysis_results, tasks, response, reports>>

elVars == <<variant, el_pc, conversation_history, question_count,
            question_response, comprehensive, loop_exception, returned_at,
            user_profile>>

coopVars == <<coop_pc, running, started, call_outcome, agent_results,
              synthesis_context, decision>>

toolVars == <<tool_pc, current_city, desired_city, CITY_DATABASE, api_key,
              current_formatted, desired_formatted, scrape,
              query_statuses, all_results, seen_urls, tool_return>>

outVars == <<output_schema, output_content, validated, timestamp, filename>>

vars == <<apiVars, elVars, coopVars, toolVars, outVars>>

----------------------------------------------------------------------------
(* Bounds                                                                  *)

\* number of POST /analyze requests accepted in one behaviour
MaxRequests == 2

\* number of distinct readings of the wall clock (microsecond resolution)
MaxClock == 2

----------------------------------------------------------------------------
(* api.py                                                                  *)

None == "None"

\* the readings datetime.now() can give; an analysis_id is a formatted reading
ClockValues == 1..MaxClock

\* f"analysis_{datetime.now().strftime('%Y%m%d_%H%M%S_%f')}"
AnalysisId(t) == <<"analysis", t>>

AnalysisIds == {AnalysisId(t) : t \in ClockValues}

\* request bodies: the two required fields, possibly empty
CityInputs == {"", "Dallas"}

\* what analyze_move_non_interactive can do: return a Decision or raise
AnalyzeOutcomes == {"return", "raise"}

\* what save_report can do: return or raise
SaveOutcomes == {"return", "raise"}

\* the record analyze_move stores (lines 165-173)
InitialRecord(id, cur, des) ==
    [analysis_id  |-> id,
     status       |-> "pending",
     message      |-> "Analysis queued for processing",
     user_profile |-> <<cur, des>>,
     result       |-> None,
     error        |-> None,
     completed_at |-> None]

\* analysis_results[id] = rec
StoreSet(store, id, rec) ==
    [i \in (DOMAIN store) \cup {id} |-> IF i = id THEN rec ELSE store[i]]

\* del analysis_results[id]
StoreDel(store, id) ==
    [i \in (DOMAIN store) \ {id} |-> store[i]]

\* analysis_results[id][f] = writes[f] for every field f of writes (the id is
\* known to be present)
StoreSetFields(store, id, writes) ==
    [store EXCEPT ![id] =
        [f \in DOMAIN @ |-> IF f \in DOMAIN writes THEN writes[f] ELSE @[f]]]

\* a step of a background task sends no response
NoResponse == [op |-> "none"]

\* POST /analyze, lines 144-148: a required field is empty
AnalyzeRejected(cur, des) ==
    /\ cur = "" \/ des = ""
    /\ response' = [op |-> "POST", code |-> 400]
    /\ UNCHANGED <<analysis_results, tasks, reports, elVars,
                   coopVars, toolVars, outVars>>

\* POST /analyze, lines 150-183: the id is the clock reading t
AnalyzeAccepted(cur, des, t) ==
    /\ cur # "" /\ des # ""
    /\ Len(tasks) < MaxRequests
    /\ LET id == AnalysisId(t) IN
        /\ analysis_results' =
               StoreSet(analysis_results, id, InitialRecord(id, cur, des))
        /\ tasks' = Append(tasks,
               [id |-> id, pc |-> "l88", recommendation |-> None,
                saved |-> FALSE, e |-> None])
        /\ response' = [op |-> "POST", code |-> 202,
                        analysis_id |-> id, status |-> "pending"]
    /\ UNCHANGED <<reports, elVars,
                   coopVars, toolVars, outVars>>

\* the readings datetime.now() can give at line 151: one an accepted request
\* was given before (the same microsecond, or the clock was set back), or a
\* new one; readings are numbered in the order in which they first occur
ReadingsNow ==
    {t \in ClockValues :
        \A u \in 1..(t - 1) : \E i \in 1..Len(tasks) : tasks[i].id = AnalysisId(u)}

analyze_move ==
    \E cur \in CityInputs, des \in CityInputs :
        \/ AnalyzeRejected(cur, des)
        \/ \E t \in ReadingsNow : AnalyzeAccepted(cur, des, t)

\* GET /analysis/{analysis_id}, lines 196-210
get_analysis_status(id) ==
    /\ IF id \notin DOMAIN analysis_results
       THEN response' = [op |-> "GET", code |-> 404, analysis_id |-> id]
       ELSE LET analysis_data == analysis_results[id] IN
            response' = [op |-> "GET", code |-> 200,
                         analysis_id |-> analysis_data.analysis_id,
                         status      |-> analysis_data.status,
                         message     |-> analysis_data.message,
                         result      |-> analysis_data.result,
                         error       |-> analysis_data.error]
    /\ UNCHANGED <<analysis_results, tasks, reports, elVars,
                   coopVars, toolVars, outVars>>

\* DELETE /analysis/{analysis_id}, lines 219-230
delete_analysis(id) ==
    /\ IF id \notin DOMAIN analysis_results
       THEN /\ response' = [op |-> "DELETE", code |-> 404, analysis_id |-> id]
            /\ UNCHANGED analysis_results
       ELSE /\ analysis_results' = StoreDel(analysis_results, id)
            /\ response' = [op |-> "DELETE", code |-> 200, analysis_id |-> id]
    /\ UNCHANGED <<tasks, reports, elVars,
                   coopVars, toolVars, outVars>>

\* The store statements of run_analysis, named by the line of their first
\* statement.  A write of status is taken together with the write of message
\* that follows it (lines 88-89, 98-99, 105-106), and the last write of a
\* block together with the write of completed_at (lines 100-101, 107-108):
\* message and completed_at decide nothing, and a KeyError at their statement
\* leads where a KeyError at the next statement of the block leads.
NextPc(pc) ==
    CASE pc = "l88"  -> "l92"
      [] pc = "l92"  -> "l95"
      [] pc = "l95"  -> "l98"
      [] pc = "l98"  -> "l100"
      [] pc = "l100" -> "done"
      [] pc = "l105" -> "l107"
      [] pc = "l107" -> "done"

TryPcs == {"l88", "l98", "l100"}

HandlerPcs == {"l105", "l107"}

\* the fields a store statement writes, with the values it writes
Writes(task) ==
    CASE task.pc = "l88"  -> [status  |-> "processing",
                              message |-> "Analysis in progress..."]
      [] task.pc = "l98"  -> [status  |-> "completed",
                              message |-> "Analysis completed successfully"]
      [] task.pc = "l100" -> [result       |-> task.recommendation,
                              completed_at |-> "now"]
      [] task.pc = "l105" -> [status  |-> "failed",
                              message |-> "Analysis failed"]
      [] task.pc = "l107" -> [error        |-> task.e,
                              completed_at |-> "now"]

\* analysis_results[analysis_id][...] = ... in run_analysis: a missing id
\* raises KeyError, which the try body catches (line 103) and which escapes
\* from the handler
StoreStatement(i) ==
    LET task == tasks[i] IN
    /\ task.pc \in TryPcs \cup HandlerPcs
    /\ IF task.id \in DOMAIN analysis_results
       THEN /\ analysis_results' =
                   StoreSetFields(analysis_results, task.id, Writes(task))
            /\ tasks' = [tasks EXCEPT ![i].pc = NextPc(task.pc)]
       ELSE /\ UNCHANGED analysis_results
            /\ tasks' = [tasks EXCEPT
                   ![i].pc = IF task.pc \in TryPcs THEN "l105" ELSE "escaped",
                   ![i].e  = "KeyError"]
    /\ response' = NoResponse
    /\ UNCHANGED <<reports, elVars,
                   coopVars, toolVars, outVars>>

\* the FinalRecommendation object the analysis call of task i returns
Decision(i) == <<"Decision", i>>

\* the statement after line 92 when the analysis call returned: the report
\* is saved before anything is written to the store
AfterAnalysis_SkipSave == "l98"

AfterAnalysis == "l95"

\* line 92: recommendation = analyze_move_non_interactive(user_profile)
AnalyzeCall(i) ==
    /\ tasks[i].pc = "l92"
    /\ \E outcome \in AnalyzeOutcomes :
        tasks' = IF outcome = "return"
                 THEN [tasks EXCEPT ![i].pc = AfterAnalysis,
                                    ![i].recommendation = Decision(i)]
                 ELSE [tasks EXCEPT ![i].pc = "l105",
                                    ![i].e = "analysis error"]
    /\ response' = NoResponse
    /\ UNCHANGED <<analysis_results, reports, elVars,
                   coopVars, toolVars, outVars>>

\* line 95: save_report(user_profile, recommendation); saved records that the
\* call returned without raising
SaveCall(i) ==
    /\ tasks[i].pc = "l95"
    /\ \E outcome \in SaveOutcomes :
        tasks' = IF outcome = "return"
                 THEN [tasks EXCEPT ![i].pc = "l98", ![i].saved = TRUE]
                 ELSE [tasks EXCEPT ![i].pc = "l105",
                                    ![i].e = "save error"]
    /\ response' = NoResponse
    /\ UNCHANGED <<analysis_results, reports, elVars,
                   coopVars, toolVars, outVars>>

\* one step of the background task i (lines 84-108)
run_analysis(i) ==
    \/ StoreStatement(i)
    \/ AnalyzeCall(i)
    \/ SaveCall(i)

\* main before gather_user_information has returned
NoProfile == [kind |-> "none"]

\* the directory "reports" does not exist
NoReportsDir == [exists |-> FALSE, files |-> {}]

\* no structured output is being validated and no report is being named
OutIdle ==
    /\ output_schema = None
    /\ output_content = << >>
    /\ validated = [state |-> "none"]
    /\ timestamp = << >>
    /\ filename = << >>

\* no tool of a sub-agent is being called
ToolIdle ==
    /\ tool_pc = None
    /\ current_city = << >>
    /\ desired_city = << >>
    /\ CITY_DATABASE = << >>
    /\ api_key = None
    /\ current_formatted = << >>
    /\ desired_formatted = << >>
    /\ scrape = [raised |-> FALSE, value |-> None]
    /\ query_statuses = << >>
    /\ all_results = << >>
    /\ seen_urls = {}
    /\ tool_return = [kind |-> "none"]

\* the server before the first request
ApiStart ==
    /\ analysis_results = << >>
    /\ tasks = << >>
    /\ response = NoResponse
    /\ reports = NoReportsDir
    /\ ToolIdle
    /\ OutIdle

\* no interactive script is running
ElIdle ==
    /\ variant = None
    /\ el_pc = "idle"
    /\ conversation_history = << >>
    /\ question_count = 0
    /\ question_response = << >>
    /\ comprehensive = FALSE
    /\ loop_exception = None
    /\ returned_at = 0
    /\ user_profile = NoProfile

\* main before the synthesis prompt is built, and before the team answered
NoContext == [built |-> FALSE]

NoDecision == [produced |-> FALSE]

\* main of the cooperation script has not reached the agents
CoopIdle ==
    /\ coop_pc = "idle"
    /\ running = None
    /\ started = {}
    /\ call_outcome = << >>
    /\ agent_results = << >>
    /\ synthesis_context = NoContext
    /\ decision = NoDecision

InitApi == ApiStart /\ ElIdle /\ CoopIdle

NextApi ==
    \/ analyze_move
    \/ \E id \in AnalysisIds : get_analysis_status(id)
    \/ \E id \in AnalysisIds : delete_analysis(id)
    \/ \E i \in 1..Len(tasks) : run_analysis(i)

SpecApi == InitApi /\ [][NextApi]_vars

\* the thread pool runs every started background task to its end
SpecApiFair ==
    SpecApi /\ \A i \in 1..MaxRequests :
                   WF_vars(i \in 1..Len(tasks) /\ run_analysis(i))

----------------------------------------------------------------------------
(* Strings are sequences of characters.                                    *)
(* 02-agno-coordination.py (agno-coordinator.py has the same elicitation   *)
(* code); line numbers are those of 02-agno-coordination.py unless the     *)
(* cooperation variant is named.                                           *)

\* lines 579-580: ["income", "salary", "earn", "make", "$"]
IncomeTerms ==
    { <<"i", "n", "c", "o", "m", "e">>,
      <<"s", "a", "l", "a", "r", "y">>,
      <<"e", "a", "r", "n">>,
      <<"m", "a", "k", "e">>,
      <<"$">> }

\* lines 581-582: ["expense", "spend", "budget", "cost"]
ExpenseTerms ==
    { <<"e", "x", "p", "e", "n", "s", "e">>,
      <<"s", "p", "e", "n", "d">>,
      <<"b", "u", "d", "g", "e", "t">>,
      <<"c", "o", "s", "t">> }

\* lines 585-586: ["prefer", "like", "love", "value", "important", "want", "need"]
PreferenceTerms ==
    { <<"p", "r", "e", "f", "e", "r">>,
      <<"l", "i", "k", "e">>,
      <<"l", "o", "v", "e">>,
      <<"v", "a", "l", "u", "e">>,
      <<"i", "m", "p", "o", "r", "t", "a", "n", "t">>,
      <<"w", "a", "n", "t">>,
      <<"n", "e", "e", "d">> }

\* lines 589-590: ["like about", "love about", "enjoy", "appreciate", "good thing"]
LikeTerms ==
    { <<"l", "i", "k", "e", " ", "a", "b", "o", "u", "t">>,
      <<"l", "o", "v", "e", " ", "a", "b", "o", "u", "t">>,
      <<"e", "n", "j", "o", "y">>,
      <<"a", "p", "p", "r", "e", "c", "i", "a", "t", "e">>,
      <<"g", "o", "o", "d", " ", "t", "h", "i", "n", "g">> }

\* lines 593-594
DislikeTerms ==
    { <<"d", "i", "s", "l", "i", "k", "e">>,
      <<"h", "a", "t", "e">>,
      <<"d", "o", "n", "'", "t", " ", "l", "i", "k", "e">>,
      <<"p", "r", "o", "b", "l", "e", "m", " ", "w", "i", "t", "h">>,
      <<"i", "s", "s", "u", "e", " ", "w", "i", "t", "h">>,
      <<"b", "a", "d", " ", "t", "h", "i", "n", "g">> }

\* 03-agno-cooperation.py lines 772-774
PriorityTerms ==
    { <<"m", "o", "s", "t", " ", "i", "m", "p", "o", "r", "t", "a", "n", "t">>,
      <<"b", "i", "g", "g", "e", "s", "t", " ", "p", "r", "i", "o", "r", "i", "t", "y">>,
      <<"k", "e", "y", " ", "f", "a", "c", "t", "o", "r">>,
      <<"m", "a", "i", "n", "l", "y", " ", "c", "o", "n", "c", "e", "r", "n", "e", "d">>,
      <<"p", "r", "i", "o", "r", "i", "t", "y", " ", "i", "s">>,
      <<"m", "a", "t", "t", "e", "r", "s", " ", "m", "o", "s", "t">>,
      <<"p", "r", "i", "m", "a", "r", "y", " ", "c", "o", "n", "c", "e", "r", "n">> }

\* line 565: f"User's initial input: {initial_input}\n\n"
HistoryHeader ==
    <<"U", "s", "e", "r", "'", "s", " ", "i", "n", "i", "t", "i", "a", "l",
      " ", "i", "n", "p", "u", "t", ":", " ">>

\* line 695: f"Assistant: {question_response.content}\n"
AssistantPrefix == <<"A", "s", "s", "i", "s", "t", "a", "n", "t", ":", " ">>

\* line 696: f"User: {user_answer}\n\n"
UserPrefix == <<"U", "s", "e", "r", ":", " ">>

Newline == <<"\n">>

\* line 509
DefaultInitialInput ==
    <<"I", "'", "m", " ", "c", "o", "n", "s", "i", "d", "e", "r", "i", "n",
      "g", " ", "a", " ", "m", "o", "v", "e", " ", "b", "u", "t", " ", "h",
      "a", "v", "e", "n", "'", "t", " ", "d", "e", "c", "i", "d", "e", "d",
      " ", "y", "e", "t", ".">>

\* line 693
RefusalAnswer ==
    <<"I", "'", "d", " ", "p", "r", "e", "f", "e", "r", " ", "n", "o", "t",
      " ", "t", "o", " ", "a", "n", "s", "w", "e", "r", " ", "t", "h", "a",
      "t", ".">>

\* what the user may type at the first prompt (line 505)
InputFlorida ==
    <<"I", "'", "m", " ", "t", "h", "i", "n", "k", "i", "n", "g", " ", "a",
      "b", "o", "u", "t", " ", "F", "l", "o", "r", "i", "d", "a">>

InputTexas ==
    <<"I", " ", "l", "i", "v", "e", " ", "i", "n", " ", "T", "e", "x", "a",
      "s">>

InputBlank == <<" ">>

\* what the question agent may ask (line 681)
QuestionCity == <<"W", "h", "i", "c", "h", " ", "c", "i", "t", "y", "?">>

QuestionKeywords ==
    <<"W", "h", "a", "t", " ", "d", "o", " ", "y", "o", "u", " ", "l", "i",
      "k", "e", " ", "a", "b", "o", "u", "t", " ", "i", "t", "?", " ", "I",
      "n", "c", "o", "m", "e", ",", " ", "p", "r", "i", "o", "r", "i", "t",
      "y", " ", "i", "s", "?">>

\* what the user may type at a question (line 690)
AnswerRich ==
    <<" ", "I", " ", "e", "a", "r", "n", " ", "$", "9", "k", ",", " ", "w",
      "a", "n", "t", " ", "s", "u", "n", ",", " ", "h", "a", "t", "e", " ",
      "s", "n", "o", "w", ",", " ", "p", "r", "i", "o", "r", "i", "t", "y",
      " ", "i", "s", " ", "s", "u", "n", " ">>

AnswerIncome == <<"I", " ", "e", "a", "r", "n", " ", "9", "k">>

AnswerWant == <<"W", "e", " ", "w", "a", "n", "t", " ", "s", "u", "n">>

AnswerHate == <<"W", "e", " ", "h", "a", "t", "e", " ", "s", "n", "o", "w">>

AnswerEnjoy ==
    <<"W", "e", " ", "e", "n", "j", "o", "y", " ", "p", "a", "r", "k", "s">>

AnswerPriority ==
    <<"N", "e", "e", "d", " ", "s", "u", "n", ",", " ", "p", "r", "i", "o",
      "r", "i", "t", "y", " ", "i", "s", " ", "s", "u", "n">>

AnswerCities ==
    <<"F", "r", "o", "m", " ", "D", "a", "l", "l", "a", "s", " ", "t", "o",
      " ", "A", "u", "s", "t", "i", "n">>

\* the values the profile extractor may put in a city field
CityDallas == <<"D", "a", "l", "l", "a", "s">>

CityAustin == <<"A", "u", "s", "t", "i", "n">>

CityTexas == <<"T", "e", "x", "a", "s">>

CityLong ==
    <<"I", " ", "l", "i", "v", "e", " ", "s", "o", "m", "e", "w", "h", "e",
      "r", "e", " ", "i", "n", " ", "n", "o", "r", "t", "h", " ", "T", "e",
      "x", "a", "s">>

FactorCost == <<"c", "o", "s", "t">>

FactorWeather == <<"w", "e", "a", "t", "h", "e", "r">>

\* lines 739-740
CityUnknown == <<"U", "n", "k", "n", "o", "w", "n", " ", "C", "i", "t", "y">>

CityUnknownDestination ==
    <<"U", "n", "k", "n", "o", "w", "n", " ", "D", "e", "s", "t", "i", "n",
      "a", "t", "i", "o", "n">>

UpperLetters ==
    <<"A", "B", "C", "D", "E", "F", "G", "H", "I", "J", "K", "L", "M",
      "N", "O", "P", "Q", "R", "S", "T", "U", "V", "W", "X", "Y", "Z">>

LowerLetters ==
    <<"a", "b", "c", "d", "e", "f", "g", "h", "i", "j", "k", "l", "m",
      "n", "o", "p", "q", "r", "s", "t", "u", "v", "w", "x", "y", "z">>

ToLower == [c \in {UpperLetters[k] : k \in 1..26} |->
               LowerLetters[CHOOSE k \in 1..26 : UpperLetters[k] = c]]

\* str.lower()
Lower(str) ==
    [i \in 1..Len(str) |->
        IF str[i] \in DOMAIN ToLower THEN ToLower[str[i]] ELSE str[i]]

\* term in str
Contains(str, term) ==
    \E i \in 0..(Len(str) - Len(term)) :
        \A j \in 1..Len(term) : str[i + j] = term[j]

\* any(term in str for term in terms)
AnyTerm(terms, str) == \E term \in terms : Contains(str, term)

IsSpace(c) == c \in {" ", "\n", "\t"}

\* str.strip()
Strip(str) ==
    LET kept == {i \in 1..Len(str) : ~IsSpace(str[i])} IN
    IF kept = {} THEN << >>
    ELSE SubSeq(str, CHOOSE i \in kept : \A k \in kept : i <= k,
                     CHOOSE i \in kept : \A k \in kept : i >= k)

\* len(str.split())
SplitLen(str) ==
    Cardinality({i \in 1..Len(str) :
                    ~IsSpace(str[i]) /\ (i = 1 \/ IsSpace(str[i - 1]))})

\* max_questions (line 566; 03-agno-cooperation.py line 742)
max_questions(v) == IF v = "cooperation" THEN 10 ELSE 8

\* a threshold of two rounds, as the comment at line 603 has it
min_question_rounds_Two(count) == count >= 2

\* line 597: min_question_rounds = question_count >= 3
min_question_rounds(count) == count >= 3

\* has_comprehensive_info with the has_preferences conjunct forgotten
has_comprehensive_info_NoPreferences(v, history, count) ==
    LET history_lower   == Lower(history)
        has_income      == AnyTerm(IncomeTerms, history_lower)
        has_expenses    == AnyTerm(ExpenseTerms, history_lower)
        has_likes       == AnyTerm(LikeTerms, history_lower)
        has_dislikes    == AnyTerm(DislikeTerms, history_lower)
        has_priority    == AnyTerm(PriorityTerms, history_lower)
    IN  /\ has_income \/ has_expenses
        /\ has_likes \/ has_dislikes
        /\ (v = "cooperation" => has_priority)
        /\ min_question_rounds(count)

\* has_comprehensive_info (lines 574-611; 03-agno-cooperation.py lines
\* 750-788, which also require has_priority)
has_comprehensive_info(v, history, count) ==
    LET history_lower   == Lower(history)
        has_income      == AnyTerm(IncomeTerms, history_lower)
        has_expenses    == AnyTerm(ExpenseTerms, history_lower)
        has_preferences == AnyTerm(PreferenceTerms, history_lower)
        has_likes       == AnyTerm(LikeTerms, history_lower)
        has_dislikes    == AnyTerm(DislikeTerms, history_lower)
        has_priority    == AnyTerm(PriorityTerms, history_lower)
        has_financial_info       == has_income \/ has_expenses
        has_current_city_opinion == has_likes \/ has_dislikes
    IN  /\ has_financial_info
        /\ has_preferences
        /\ has_current_city_opinion
        /\ (v = "cooperation" => has_priority)
        /\ min_question_rounds(count)

\* lines 505-509 and 565: the transcript after the first prompt
InitialHistory(raw) ==
    LET stripped      == Strip(raw)
        initial_input == IF stripped = << >> THEN DefaultInitialInput
                         ELSE stripped
    IN  HistoryHeader \o initial_input \o Newline \o Newline

\* a turn recorded with the answer as typed
AppendTurn_AsTyped(history, question, raw) ==
    history \o AssistantPrefix \o question \o Newline
            \o UserPrefix \o Strip(raw) \o Newline \o Newline

\* lines 690-696: the transcript after one more question and answer
AppendTurn(history, question, raw) ==
    LET stripped    == Strip(raw)
        user_answer == IF stripped = << >> THEN RefusalAnswer ELSE stripped
    IN  history \o AssistantPrefix \o question \o Newline
                \o UserPrefix \o user_answer \o Newline \o Newline

\* a UserProfile as the extractor returns it
Profile(current, desired, factor) ==
    [kind |-> "profile", current_city |-> current, desired_city |-> desired,
     most_important_factor |-> factor]

\* run output whose content is None (the model gave no structured output)
NoContent == [kind |-> "nocontent"]

\* what profile_extractor.run can return as content
ExtractedContents ==
    { Profile(CityDallas, CityAustin, FactorCost),
      Profile(CityTexas, CityAustin, FactorCost),
      Profile(<< >>, CityAustin, FactorCost),
      Profile(CityLong, CityAustin, FactorCost),
      Profile(CityDallas, CityAustin, << >>),
      Profile(CityDallas, << >>, FactorCost),
      Profile(CityDallas, CityLong, FactorCost),
      NoContent }

\* lines 738-746 (03-agno-cooperation.py lines 918-927): the default profile
DefaultProfile ==
    Profile(CityUnknown, CityUnknownDestination, << >>)

\* a check that looks at the current city only
ProfileAccepted_CurrentOnly(v, content) ==
    /\ content.kind = "profile"
    /\ content.current_city # << >>
    /\ (v = "cooperation" => content.most_important_factor # << >>)
    /\ SplitLen(content.current_city) <= 4

\* lines 642-645 (03-agno-cooperation.py lines 820-824): the in-loop check
ProfileAccepted(v, content) ==
    /\ content.kind = "profile"
    /\ content.current_city # << >>
    /\ content.desired_city # << >>
    /\ (v = "cooperation" => content.most_important_factor # << >>)
    /\ SplitLen(content.current_city) <= 4
    /\ SplitLen(content.desired_city) <= 4

\* an off-by-one loop test
LoopContinues_Inclusive(count, max) == count <= max

\* line 613: while question_count < max_questions
LoopContinues(count, max) == count < max

\* what the user types at the first prompt, and at a question
InitialInputs == {InputFlorida, InputBlank}

Questions == {QuestionCity}

AnswerInputs == {InputBlank, AnswerRich}

\* lines 505-567: the first prompt
FirstPrompt ==
    /\ el_pc = "l505"
    /\ \E raw \in InitialInputs :
        conversation_history' = InitialHistory(raw)
    /\ question_count' = 0
    /\ el_pc' = "l613"
    /\ UNCHANGED <<apiVars, coopVars, variant, question_response, comprehensive, loop_exception,
                   returned_at, user_profile,
                   toolVars, outVars>>

\* lines 613-620: the loop test and the completeness test
LoopHead ==
    /\ el_pc = "l613"
    /\ IF LoopContinues(question_count, max_questions(variant))
       THEN /\ comprehensive' = has_comprehensive_info(variant,
                                    conversation_history, question_count)
            /\ el_pc' = IF comprehensive' THEN "l630" ELSE "l681"
       ELSE /\ el_pc' = "l719"
            /\ UNCHANGED comprehensive
    /\ UNCHANGED <<apiVars, coopVars, variant, conversation_history, question_count,
                   question_response, loop_exception, returned_at,
                   user_profile,
                   toolVars, outVars>>

\* lines 629-656: the in-loop extraction; a raise (or content None, whose
\* attribute access raises) is caught at line 653
LoopExtraction ==
    /\ el_pc = "l630"
    /\ \/ \E content \in ExtractedContents :
            IF ProfileAccepted(variant, content)
            THEN /\ user_profile' = content
                 /\ returned_at' = 649
                 /\ el_pc' = "returned"
            ELSE /\ el_pc' = "l681"
                 /\ UNCHANGED <<user_profile, returned_at>>
       \/ /\ el_pc' = "l681"
          /\ UNCHANGED <<user_profile, returned_at>>
    /\ UNCHANGED <<apiVars, coopVars, variant, conversation_history, question_count,
                   question_response, comprehensive, loop_exception,
                   toolVars, outVars>>

\* line 681: the question agent returns a question or raises (lines 702-707)
AskQuestion ==
    /\ el_pc = "l681"
    /\ \/ /\ \E q \in Questions : question_response' = q
          /\ el_pc' = "l690"
          /\ UNCHANGED loop_exception
       \/ /\ loop_exception' = "question agent error"
          /\ el_pc' = "l719"
          /\ UNCHANGED question_response
    /\ UNCHANGED <<apiVars, coopVars, variant, conversation_history, question_count,
                   comprehensive, returned_at, user_profile,
                   toolVars, outVars>>

\* lines 690-697: the answer is read and recorded, or input() raises
\* (lines 702-707)
ReadAnswer ==
    /\ el_pc = "l690"
    /\ \/ /\ \E raw \in AnswerInputs :
                conversation_history' =
                    AppendTurn(conversation_history, question_response, raw)
          /\ question_count' = question_count + 1
          /\ el_pc' = "l613"
          /\ UNCHANGED loop_exception
       \/ /\ loop_exception' = "EOFError"
          /\ el_pc' = "l719"
          /\ UNCHANGED <<conversation_history, question_count>>
    /\ UNCHANGED <<apiVars, coopVars, variant, question_response, comprehensive, returned_at,
                   user_profile,
                   toolVars, outVars>>

\* lines 710-746: the final attempt returns the content as it is, or the
\* default profile when the extractor raises
FinalExtraction ==
    /\ el_pc = "l719"
    /\ \/ /\ \E content \in ExtractedContents : user_profile' = content
          /\ returned_at' = 728
       \/ /\ user_profile' = DefaultProfile
          /\ returned_at' = 738
    /\ el_pc' = "returned"
    /\ UNCHANGED <<apiVars, coopVars, variant, conversation_history, question_count,
                   question_response, comprehensive, loop_exception,
                   toolVars, outVars>>

\* main, lines 760-800 (03-agno-cooperation.py lines 941-1029): the profile
\* is read (content None raises AttributeError) and handed to the team
HandToTeam ==
    /\ el_pc = "returned"
    /\ el_pc' = IF user_profile.kind = "profile" THEN "team" ELSE "crashed"
    /\ UNCHANGED <<apiVars, coopVars, variant, conversation_history, question_count,
                   question_response, comprehensive, loop_exception,
                   returned_at, user_profile,
                   toolVars, outVars>>

\* a script is started
ElStart ==
    /\ variant \in {"coordination", "cooperation"}
    /\ el_pc = "l505"
    /\ conversation_history = << >>
    /\ question_count = 0
    /\ question_response = << >>
    /\ comprehensive = FALSE
    /\ loop_exception = None
    /\ returned_at = 0
    /\ user_profile = NoProfile

InitElicit == ApiStart /\ ElStart /\ CoopIdle

NextElicit ==
    \/ FirstPrompt
    \/ LoopHead
    \/ LoopExtraction
    \/ AskQuestion
    \/ ReadAnswer
    \/ FinalExtraction
    \/ HandToTeam

SpecElicit == InitElicit /\ [][NextElicit]_vars

----------------------------------------------------------------------------
(* The completeness predicate applied to bounded transcripts               *)

\* number of question/answer rounds of a transcript
MaxPredTurns == 3

PredInitialInputs == {InputFlorida, InputTexas, InputBlank}

PredAnswerInputs ==
    {InputBlank, AnswerIncome, AnswerWant, AnswerHate, AnswerEnjoy,
     AnswerPriority, AnswerCities}

\* the rounds a transcript is built from: a question and the typed answer
PredTurns ==
    {<<QuestionCity, raw>> : raw \in PredAnswerInputs}
        \cup {<<QuestionKeywords, InputBlank>>}

\* lines 690-697 followed by the test of line 620
PredicateTurn ==
    /\ el_pc = "predicate"
    /\ question_count < MaxPredTurns
    /\ \E turn \in PredTurns :
        conversation_history' =
            AppendTurn(conversation_history, turn[1], turn[2])
    /\ question_count' = question_count + 1
    /\ comprehensive' = has_comprehensive_info(variant,
                            conversation_history', question_count')
    /\ UNCHANGED <<apiVars, coopVars, variant, el_pc, question_response,
                   loop_exception, returned_at, user_profile,
                   toolVars, outVars>>

PredicateStart ==
    /\ variant \in {"coordination", "cooperation"}
    /\ el_pc = "predicate"
    /\ \E raw \in PredInitialInputs :
        conversation_history = InitialHistory(raw)
    /\ question_count = 0
    /\ question_response = << >>
    /\ comprehensive = FALSE
    /\ loop_exception = None
    /\ returned_at = 0
    /\ user_profile = NoProfile

InitPredicate == ApiStart /\ PredicateStart /\ CoopIdle

NextPredicate == PredicateTurn

SpecPredicate == InitPredicate /\ [][NextPredicate]_vars

----------------------------------------------------------------------------
(* 03-agno-cooperation.py, main: the Cooperate protocol                    *)

Agents == {"cost", "sentiment", "migration"}

\* the run() call main makes at a statement (lines 1029, 1040, 1051)
AgentAt(pc) ==
    CASE pc = "l1029" -> "cost"
      [] pc = "l1040" -> "sentiment"
      [] pc = "l1051" -> "migration"

\* the statement after an agent's block (lines 1029-1056)
AfterAgent(agent) ==
    CASE agent = "cost"      -> "l1040"
      [] agent = "sentiment" -> "l1051"
      [] agent = "migration" -> "l1063"

\* the analyses an agent can return as content
Analyses == {"stay", "move"}

\* how a run() call can end: with a structured content, with content None
\* (schema validation failed), with no content attribute, or by raising
\* (engine error, timeout)
CallOutcomes ==
    {[kind |-> "content", content |-> a] : a \in Analyses}
        \cup {[kind |-> "content_none"], [kind |-> "no_content"],
              [kind |-> "raise"]}

NotAvailable == "Not available"

OverallQualityOfLife ==
    <<"o", "v", "e", "r", "a", "l", "l", " ", "q", "u", "a", "l", "i", "t",
      "y", " ", "o", "f", " ", "l", "i", "f", "e">>

\* line 968: priority_str = user_profile.most_important_factor or "overall
\* quality of life"
priority_str(profile) ==
    IF profile.most_important_factor # << >>
    THEN profile.most_important_factor
    ELSE OverallQualityOfLife

\* A dict keeps its items in the order in which the keys were first set: it
\* is a sequence of <<key, value>> pairs.
\* dict[key] = value
DictSet(dict, key, value) ==
    IF \E k \in 1..Len(dict) : dict[k][1] = key
    THEN [k \in 1..Len(dict) |->
             IF dict[k][1] = key THEN <<key, value>> ELSE dict[k]]
    ELSE Append(dict, <<key, value>>)

\* a lookup by the place a result has in the dict
GetResult_ByPosition(results, key) ==
    LET place == CASE key = "cost" -> 1
                   [] key = "sentiment" -> 2
                   [] key = "migration" -> 3
    IN  IF place <= Len(results) THEN results[place][2] ELSE NotAvailable

\* agent_results.get(key, 'Not available') (lines 1069-1075)
GetResult(results, key) ==
    IF \E k \in 1..Len(results) : results[k][1] = key
    THEN results[CHOOSE k \in 1..Len(results) : results[k][1] = key][2]
    ELSE NotAvailable

\* lines 1063-1082: the synthesis prompt, by the values it is filled with
SynthesisContext(results, profile) ==
    [built     |-> TRUE,
     priority  |-> priority_str(profile),
     cost      |-> GetResult(results, "cost"),
     sentiment |-> GetResult(results, "sentiment"),
     migration |-> GetResult(results, "migration")]

\* lines 1029, 1040, 1051: main calls the next agent's run() and blocks in it
StartCall ==
    /\ coop_pc \in {"l1029", "l1040", "l1051"}
    /\ running = None
    /\ running' = AgentAt(coop_pc)
    /\ started' = started \cup {AgentAt(coop_pc)}
    /\ UNCHANGED <<apiVars, elVars, coop_pc, call_outcome, agent_results,
                   synthesis_context, decision,
                   toolVars, outVars>>

\* the call in progress ends (lines 1030-1034, 1041-1045, 1052-1056): a
\* content is stored and its fields are printed, which raises AttributeError
\* when the content is None; a raise of run() leaves main
CallEnds ==
    /\ running # None
    /\ \E outcome \in CallOutcomes :
        /\ call_outcome' = StoreSet(call_outcome, running, outcome.kind)
        /\ agent_results' =
               CASE outcome.kind = "content" ->
                        DictSet(agent_results, running, outcome.content)
                 [] outcome.kind = "content_none" ->
                        DictSet(agent_results, running, None)
                 [] OTHER -> agent_results
        /\ coop_pc' = IF outcome.kind \in {"content", "no_content"}
                      THEN AfterAgent(running) ELSE "crashed"
    /\ running' = None
    /\ UNCHANGED <<apiVars, elVars, started, synthesis_context, decision,
                   toolVars, outVars>>

\* lines 1063-1084: the findings are put in the prompt and the team is called
Synthesize ==
    /\ coop_pc = "l1063"
    /\ synthesis_context' = SynthesisContext(agent_results, user_profile)
    /\ coop_pc' = "l1084"
    /\ UNCHANGED <<apiVars, elVars, running, started, call_outcome,
                   agent_results, decision,
                   toolVars, outVars>>

\* line 1084: the team call prints the decision or raises
TeamCallEnds ==
    /\ coop_pc = "l1084"
    /\ \/ /\ decision' = [produced |-> TRUE, based_on |-> synthesis_context]
          /\ coop_pc' = "done"
       \/ /\ coop_pc' = "crashed"
          /\ UNCHANGED decision
    /\ UNCHANGED <<apiVars, elVars, running, started, call_outcome,
                   agent_results, synthesis_context,
                   toolVars, outVars>>

\* the profiles gather_user_information can have returned
CoopProfiles ==
    { Profile(CityDallas, CityAustin, FactorCost),
      Profile(CityTexas, CityAustin, FactorWeather),
      DefaultProfile }

\* main has the profile and is about to call the first agent
CoopStart ==
    /\ variant = "cooperation"
    /\ el_pc = "team"
    /\ conversation_history = << >>
    /\ question_count = 0
    /\ question_response = << >>
    /\ comprehensive = FALSE
    /\ loop_exception = None
    /\ returned_at = 0
    /\ user_profile \in CoopProfiles
    /\ coop_pc = "l1029"
    /\ running = None
    /\ started = {}
    /\ call_outcome = << >>
    /\ agent_results = << >>
    /\ synthesis_context = NoContext
    /\ decision = NoDecision

InitCoop == ApiStart /\ CoopStart

NextCoop ==
    \/ StartCall
    \/ CallEnds
    \/ Synthesize
    \/ TeamCallEnds

SpecCoop == InitCoop /\ [][NextCoop]_vars

\* main's own statements run when they are reached; nothing makes a call to
\* the reasoning engine end
SpecCoopFair ==
    /\ SpecCoop
    /\ WF_vars(StartCall)
    /\ WF_vars(Synthesize)

----------------------------------------------------------------------------
(* 03-agno-cooperation.py, main: the synthesis step (lines 1063-1084) as a   *)
(* function of the results it is given                                      *)

\* the keys of a dict
DictKeys(dict) == {dict[k][1] : k \in 1..Len(dict)}

\* the dicts of results the synthesis step can be given: the results of the
\* agents that returned a content, stored in any order
ResultDicts ==
    {dict \in UNION {[1..n -> Agents \X Analyses] : n \in 0..Cardinality(Agents)} :
        \A j, k \in 1..Len(dict) : dict[j][1] = dict[k][1] => j = k}

\* main has stored the results and is about to build the synthesis prompt
SynthStart ==
    /\ variant = "cooperation"
    /\ el_pc = "team"
    /\ conversation_history = << >>
    /\ question_count = 0
    /\ question_response = << >>
    /\ comprehensive = FALSE
    /\ loop_exception = None
    /\ returned_at = 0
    /\ user_profile \in CoopProfiles
    /\ coop_pc = "l1063"
    /\ running = None
    /\ started = Agents
    /\ agent_results \in ResultDicts
    /\ call_outcome = [a \in Agents |->
                           IF a \in DictKeys(agent_results) THEN "content"
                           ELSE "no_content"]
    /\ synthesis_context = NoContext
    /\ decision = NoDecision

InitSynth == ApiStart /\ SynthStart

NextSynth ==
    \/ Synthesize
    \/ TeamCallEnds

SpecSynth == InitSynth /\ [][NextSynth]_vars

----------------------------------------------------------------------------
(* api.py, get_report_markdown: the report endpoint (lines 233-296)        *)

\* line 249
AnalysisPrefix == <<"a", "n", "a", "l", "y", "s", "i", "s", "_">>

\* line 274: the end of the glob pattern
ReportSuffix == <<"_", "a", "n", "a", "l", "y", "s", "i", "s", ".", "m", "d">>

\* str.startswith(prefix)
StartsWith(str, prefix) ==
    /\ Len(str) >= Len(prefix)
    /\ SubSeq(str, 1, Len(prefix)) = prefix

\* str.replace(old, ""): every occurrence of old, from the left, is removed
RECURSIVE Remove(_, _)
Remove(str, old) ==
    IF str = << >> THEN << >>
    ELSE IF StartsWith(str, old)
         THEN Remove(SubSeq(str, Len(old) + 1, Len(str)), old)
         ELSE <<Head(str)>> \o Remove(Tail(str), old)

\* str.split(sep) for a separator of one character
RECURSIVE Split(_, _)
Split(str, sep) ==
    IF \A k \in 1..Len(str) : str[k] # sep
    THEN <<str>>
    ELSE LET k == CHOOSE k \in 1..Len(str) :
                      str[k] = sep /\ \A j \in 1..(k - 1) : str[j] # sep
         IN <<SubSeq(str, 1, k - 1)>>
                \o Split(SubSeq(str, k + 1, Len(str)), sep)

\* glob.glob on the names of one directory (fnmatch): "*" stands for any
\* run of characters and "?" for any one character
RECURSIVE GlobMatch(_, _)
GlobMatch(pattern, name) ==
    IF pattern = << >> THEN name = << >>
    ELSE IF Head(pattern) = "*"
         THEN \/ GlobMatch(Tail(pattern), name)
              \/ name # << >> /\ GlobMatch(pattern, Tail(name))
         ELSE /\ name # << >>
              /\ Head(pattern) = "?" \/ Head(pattern) = Head(name)
              /\ GlobMatch(Tail(pattern), Tail(name))

Digits == {"0", "1", "2", "3", "4", "5", "6", "7", "8", "9"}

\* a run of underscores becomes one underscore
RECURSIVE CollapseUnderscores(_)
CollapseUnderscores(str) ==
    IF Len(str) < 2 THEN str
    ELSE IF str[1] = "_" /\ str[2] = "_"
         THEN CollapseUnderscores(Tail(str))
         ELSE <<Head(str)>> \o CollapseUnderscores(Tail(str))

\* the city part of a report's name: lowercased, every run of characters
\* that are not lowercase letters or digits collapsed to one underscore
NormalizeCity(city) ==
    LET low == Lower(city) IN
    CollapseUnderscores(
        [i \in 1..Len(low) |->
            IF low[i] \in Digits
                            \cup {LowerLetters[k] : k \in 1..Len(LowerLetters)}
            THEN low[i] ELSE "_"])

\* the name save_report gives a report:
\* {current}_to_{desired}_{timestamp}_analysis.md
ReportFileName(current, desired, stamp) ==
    NormalizeCity(current) \o <<"_", "t", "o", "_">> \o NormalizeCity(desired)
        \o <<"_">> \o stamp \o ReportSuffix

\* timestamps (strftime "%Y%m%d_%H%M%S"), the date and the time of day
\* shortened to one digit each
StampOne == <<"1", "_", "1">>

StampTwo == <<"1", "_", "2">>

CitySanJose == <<"S", "a", "n", " ", "J", "o", "s", "e">>

\* the reports save_report can have written
ReportFiles ==
    { ReportFileName(CityDallas, CityAustin, StampOne),
      ReportFileName(CityAustin, CityDallas, StampOne),
      ReportFileName(CitySanJose, CityAustin, StampTwo) }

\* the states the directory can be in
ReportDirs ==
    {NoReportsDir}
        \cup {[exists |-> TRUE, files |-> F] : F \in SUBSET ReportFiles}

\* the analysis_id path parameters a client can send: ids POST /analyze
\* issued (the microsecond field shortened to one digit), an id never
\* issued, and other strings
IdOneA ==
    <<"a", "n", "a", "l", "y", "s", "i", "s", "_", "1", "_", "1", "_", "4">>

IdOneB ==
    <<"a", "n", "a", "l", "y", "s", "i", "s", "_", "1", "_", "1", "_", "7">>

IdTwo ==
    <<"a", "n", "a", "l", "y", "s", "i", "s", "_", "1", "_", "2", "_", "5">>

IdNeverIssued ==
    <<"a", "n", "a", "l", "y", "s", "i", "s", "_", "1", "_", "3", "_", "5">>

IdNoPrefix == <<"r", "e", "p", "o", "r", "t", "_", "1", "_", "1", "_", "4">>

IdOnePart == <<"a", "n", "a", "l", "y", "s", "i", "s", "_", "1">>

IdDoubled ==
    <<"a", "n", "a", "l", "y", "s", "i", "s", "_", "a", "n", "a", "l", "y",
      "s", "i", "s", "_", "1", "_", "2">>

IdStars == <<"a", "n", "a", "l", "y", "s", "i", "s", "_", "*", "_", "*">>

IdQuestionMark ==
    <<"a", "n", "a", "l", "y", "s", "i", "s", "_", "1", "_", "?", "_", "5">>

ReportRequestIds ==
    {IdOneA, IdOneB, IdTwo, IdNeverIssued, IdNoPrefix, IdOnePart, IdDoubled,
     IdStars, IdQuestionMark}

\* lines 261-263: the date and the time of day of the id
Timestamp(analysis_id) ==
    LET timestamp_parts == Split(Remove(analysis_id, AnalysisPrefix), "_") IN
    timestamp_parts[1] \o <<"_">> \o timestamp_parts[2]

\* lines 273-274: the files of the directory the glob pattern matches
MatchingFiles(analysis_id) ==
    {f \in reports.files :
        GlobMatch(<<"*", "_">> \o Timestamp(analysis_id) \o ReportSuffix, f)}

ReportAnswer(analysis_id, code, content) ==
    [op |-> "REPORT", code |-> code, analysis_id |-> analysis_id,
     content |-> content]

\* GET /report/{analysis_id}, lines 249-294; glob.glob gives the matches in
\* no particular order, and reading the first one can raise
get_report_markdown(analysis_id) ==
    /\ IF ~StartsWith(analysis_id, AnalysisPrefix)
       THEN response' = ReportAnswer(analysis_id, 400, None)
       ELSE IF Len(Split(Remove(analysis_id, AnalysisPrefix), "_")) < 2
       THEN response' = ReportAnswer(analysis_id, 400, None)
       ELSE IF ~reports.exists
       THEN response' = ReportAnswer(analysis_id, 404, None)
       ELSE IF MatchingFiles(analysis_id) = {}
       THEN response' = ReportAnswer(analysis_id, 404, None)
       ELSE \E report_file \in MatchingFiles(analysis_id) :
                \/ response' = ReportAnswer(analysis_id, 200, report_file)
                \/ response' = ReportAnswer(analysis_id, 500, None)
    /\ UNCHANGED <<analysis_results, tasks, reports, elVars, coopVars,
                   toolVars, outVars>>

InitReport ==
    /\ analysis_results = << >>
    /\ tasks = << >>
    /\ response = NoResponse
    /\ reports \in ReportDirs
    /\ ToolIdle
    /\ OutIdle
    /\ ElIdle
    /\ CoopIdle

NextReport == \E analysis_id \in ReportRequestIds :
                  get_report_markdown(analysis_id)

SpecReport == InitReport /\ [][NextReport]_vars

----------------------------------------------------------------------------
(* sub_agents/cost_analyst/tools.py: the cost-of-living lookup             *)

\* line 99: the alternatives of the first pattern, lowercased (the pattern
\* is matched with re.IGNORECASE)
StateAbbreviations ==
    { <<"a", "l">>, <<"a", "k">>, <<"a", "z">>, <<"a", "r">>, <<"c", "a">>,
      <<"c", "o">>, <<"c", "t">>, <<"d", "e">>, <<"f", "l">>, <<"g", "a">>,
      <<"h", "i">>, <<"i", "d">>, <<"i", "l">>, <<"i", "n">>, <<"i", "a">>,
      <<"k", "s">>, <<"k", "y">>, <<"l", "a">>, <<"m", "e">>, <<"m", "d">>,
      <<"m", "a">>, <<"m", "i">>, <<"m", "n">>, <<"m", "s">>, <<"m", "o">>,
      <<"m", "t">>, <<"n", "e">>, <<"n", "v">>, <<"n", "h">>, <<"n", "j">>,
      <<"n", "m">>, <<"n", "y">>, <<"n", "c">>, <<"n", "d">>, <<"o", "h">>,
      <<"o", "k">>, <<"o", "r">>, <<"p", "a">>, <<"r", "i">>, <<"s", "c">>,
      <<"s", "d">>, <<"t", "n">>, <<"t", "x">>, <<"u", "t">>, <<"v", "t">>,
      <<"v", "a">>, <<"w", "a">>, <<"w", "v">>, <<"w", "i">>, <<"w", "y">> }

\* line 100: the alternatives of the second pattern, lowercased
StateNames ==
    { <<"a", "l", "a", "b", "a", "m", "a">>,
      <<"a", "l", "a", "s", "k", "a">>,
      <<"a", "r", "i", "z", "o", "n", "a">>,
      <<"a", "r", "k", "a", "n", "s", "a", "s">>,
      <<"c", "a", "l", "i", "f", "o", "r", "n", "i", "a">>,
      <<"c", "o", "l", "o", "r", "a", "d", "o">>,
      <<"c", "o", "n", "n", "e", "c", "t", "i", "c", "u", "t">>,
      <<"d", "e", "l", "a", "w", "a", "r", "e">>,
      <<"f", "l", "o", "r", "i", "d", "a">>,
      <<"g", "e", "o", "r", "g", "i", "a">>,
      <<"h", "a", "w", "a", "i", "i">>, <<"i", "d", "a", "h", "o">>,
      <<"i", "l", "l", "i", "n", "o", "i", "s">>,
      <<"i", "n", "d", "i", "a", "n", "a">>, <<"i", "o", "w", "a">>,
      <<"k", "a", "n", "s", "a", "s">>,
      <<"k", "e", "n", "t", "u", "c", "k", "y">>,
      <<"l", "o", "u", "i", "s", "i", "a", "n", "a">>,
      <<"m", "a", "i", "n", "e">>,
      <<"m", "a", "r", "y", "l", "a", "n", "d">>,
      <<"m", "a", "s", "s", "a", "c", "h", "u", "s", "e", "t", "t", "s">>,
      <<"m", "i", "c", "h", "i", "g", "a", "n">>,
      <<"m", "i", "n", "n", "e", "s", "o", "t", "a">>,
      <<"m", "i", "s", "s", "i", "s", "s", "i", "p", "p", "i">>,
      <<"m", "i", "s", "s", "o", "u", "r", "i">>,
      <<"m", "o", "n", "t", "a", "n", "a">>,
      <<"n", "e", "b", "r", "a", "s", "k", "a">>,
      <<"n", "e", "v", "a", "d", "a">>,
      <<"n", "e", "w", " ", "h", "a", "m", "p", "s", "h", "i", "r", "e">>,
      <<"n", "e", "w", " ", "j", "e", "r", "s", "e", "y">>,
      <<"n", "e", "w", " ", "m", "e", "x", "i", "c", "o">>,
      <<"n", "e", "w", " ", "y", "o", "r", "k">>,
      <<"n", "o", "r", "t", "h", " ", "c", "a", "r", "o", "l", "i", "n", "a">>,
      <<"n", "o", "r", "t", "h", " ", "d", "a", "k", "o", "t", "a">>,
      <<"o", "h", "i", "o">>, <<"o", "k", "l", "a", "h", "o", "m", "a">>,
      <<"o", "r", "e", "g", "o", "n">>,
      <<"p", "e", "n", "n", "s", "y", "l", "v", "a", "n", "i", "a">>,
      <<"r", "h", "o", "d", "e", " ", "i", "s", "l", "a", "n", "d">>,
      <<"s", "o", "u", "t", "h", " ", "c", "a", "r", "o", "l", "i", "n", "a">>,
      <<"s", "o", "u", "t", "h", " ", "d", "a", "k", "o", "t", "a">>,
      <<"t", "e", "n", "n", "e", "s", "s", "e", "e">>,
      <<"t", "e", "x", "a", "s">>, <<"u", "t", "a", "h">>,
      <<"v", "e", "r", "m", "o", "n", "t">>,
      <<"v", "i", "r", "g", "i", "n", "i", "a">>,
      <<"w", "a", "s", "h", "i", "n", "g", "t", "o", "n">>,
      <<"w", "e", "s", "t", " ", "v", "i", "r", "g", "i", "n", "i", "a">>,
      <<"w", "i", "s", "c", "o", "n", "s", "i", "n">>,
      <<"w", "y", "o", "m", "i", "n", "g">> }

CityNewYorkCityNY ==
    <<"N", "e", "w", " ", "Y", "o", "r", "k", " ", "C", "i", "t", "y", ",",
      " ", "N", "Y">>

CityMiamiFL == <<"M", "i", "a", "m", "i", ",", " ", "F", "L">>

CitySanFrancisco ==
    <<"S", "a", "n", " ", "F", "r", "a", "n", "c", "i", "s", "c", "o">>

CityLosAngelesCalifornia ==
    <<"L", "o", "s", " ", "A", "n", "g", "e", "l", "e", "s", ",", " ", "C",
      "a", "l", "i", "f", "o", "r", "n", "i", "a">>

CityFortWorthTexas ==
    <<"F", "o", "r", "t", " ", "W", "o", "r", "t", "h", ",", " ", "T", "e",
      "x", "a", "s">>

CityNewYorkCity ==
    <<"N", "e", "w", " ", "Y", "o", "r", "k", " ", "C", "i", "t", "y">>

DisplayDallasTX == <<"D", "a", "l", "l", "a", "s", ",", " ", "T", "X">>

UrlDallasTx == <<"d", "a", "l", "l", "a", "s", "-", "t", "x">>

\* lines 44-57: alias_map, as <<alias, key of the city table>> pairs
alias_map ==
    { <<<<"n", "y", "c">>,
        <<"N", "e", "w", " ", "Y", "o", "r", "k", " ", "(", "M", "a", "n", "h", "a", "t", "t", "a", "n", ")", ",", " ", "N", "Y">>>>,
      <<<<"n", "e", "w", " ", "y", "o", "r", "k", " ", "c", "i", "t", "y">>,
        <<"N", "e", "w", " ", "Y", "o", "r", "k", " ", "(", "M", "a", "n", "h", "a", "t", "t", "a", "n", ")", ",", " ", "N", "Y">>>>,
      <<<<"b", "r", "o", "o", "k", "l", "y", "n">>,
        <<"N", "e", "w", " ", "Y", "o", "r", "k", " ", "(", "B", "r", "o", "o", "k", "l", "y", "n", ")", ",", " ", "N", "Y">>>>,
      <<<<"m", "a", "n", "h", "a", "t", "t", "a", "n">>,
        <<"N", "e", "w", " ", "Y", "o", "r", "k", " ", "(", "M", "a", "n", "h", "a", "t", "t", "a", "n", ")", ",", " ", "N", "Y">>>>,
      <<<<"q", "u", "e", "e", "n", "s">>,
        <<"N", "e", "w", " ", "Y", "o", "r", "k", " ", "(", "Q", "u", "e", "e", "n", "s", ")", ",", " ", "N", "Y">>>>,
      <<<<"b", "r", "o", "n", "x">>,
        <<"N", "e", "w", " ", "Y", "o", "r", "k", " ", "(", "B", "r", "o", "n", "x", ")", ",", " ", "N", "Y">>>>,
      <<<<"s", "t", "a", "t", "e", "n", " ", "i", "s", "l", "a", "n", "d">>,
        <<"N", "e", "w", " ", "Y", "o", "r", "k", " ", "(", "S", "t", "a", "t", "e", "n", " ", "I", "s", "l", "a", "n", "d", ")", ",", " ", "N", "Y">>>>,
      <<<<"l", "a">>,
        <<"L", "o", "s", " ", "A", "n", "g", "e", "l", "e", "s", ",", " ", "C", "A">>>>,
      <<<<"s", "f">>,
        <<"S", "a", "n", " ", "F", "r", "a", "n", "c", "i", "s", "c", "o", ",", " ", "C", "A">>>>,
      <<<<"s", "a", "n", " ", "f", "r", "a", "n">>,
        <<"S", "a", "n", " ", "F", "r", "a", "n", "c", "i", "s", "c", "o", ",", " ", "C", "A">>>>,
      <<<<"p", "h", "i", "l", "l", "y">>,
        <<"P", "h", "i", "l", "a", "d", "e", "l", "p", "h", "i", "a", ",", " ", "P", "A">>>>,
      <<<<"v", "e", "g", "a", "s">>,
        <<"L", "a", "s", " ", "V", "e", "g", "a", "s", ",", " ", "N", "V">>>> }

DisplayManhattan ==
    <<"N", "e", "w", " ", "Y", "o", "r", "k", " ", "(", "M", "a", "n", "h",
      "a", "t", "t", "a", "n", ")", ",", " ", "N", "Y">>

CityNewYork == <<"N", "e", "w", " ", "Y", "o", "r", "k">>

UrlManhattan ==
    <<"n", "e", "w", "-", "y", "o", "r", "k", "-", "m", "a", "n", "h", "a",
      "t", "t", "a", "n", "-", "n", "y">>

\* the arguments the cost analyst calls the tool with
CostCities ==
    { CityNewYorkCityNY, CityMiamiFL, CitySanFrancisco,
      CityLosAngelesCalifornia, CityFortWorthTexas, CityNewYorkCity,
      CityDallas }

\* lines 8-15: the table stays empty when the data file is missing; a
\* loaded table maps a key to the city's entry (a dict, here a sequence of
\* <<key, entry>> pairs in insertion order)
CityDatabases ==
    { << >>,
      << <<DisplayDallasTX,
           [city |-> CityDallas, display_name |-> DisplayDallasTX,
            url_format |-> UrlDallasTx]>>,
         <<DisplayManhattan,
           [city |-> CityNewYork, display_name |-> DisplayManhattan,
            url_format |-> UrlManhattan]>> >> }

\* find_best_city_match returned None
NoCityMatch == [found |-> FALSE]

\* find_best_city_match (lines 17-75): the values it can return.  The exact
\* match and the alias are computed; get_close_matches is a library call
\* whose ranking is left open: it yields no entry or any entry of the table.
find_best_city_match(db, name) ==
    IF db = << >> THEN {NoCityMatch}
    ELSE
      LET city_name == Strip(name)
          city_lower == Lower(city_name)
          hits(i) == \/ Lower(db[i][1]) = city_lower
                     \/ Lower(db[i][2].city) = city_lower
                     \/ Lower(db[i][2].display_name) = city_lower
          exact == {i \in 1..Len(db) : hits(i)}
          aliased == {i \in 1..Len(db) : <<city_lower, db[i][1]>> \in alias_map}
      IN IF exact # {}
         THEN {db[CHOOSE i \in exact : \A k \in exact : i <= k][2]}
         ELSE IF aliased # {}
         THEN {db[i][2] : i \in aliased}
         ELSE {NoCityMatch} \cup {db[i][2] : i \in 1..Len(db)}

\* the pattern ,?\s*(alternatives)\s*$ matches the whole of str
MatchesStateSuffix(str, alternatives) ==
    LET rest == IF str # << >> /\ Head(str) = "," THEN Tail(str) ELSE str
    IN Lower(Strip(rest)) \in alternatives

\* re.sub(r',?\s*(alternatives)\s*$', '', str, flags=re.IGNORECASE): the
\* leftmost match, which reaches the end of str, is cut off
RemoveStateSuffix(str, alternatives) ==
    LET starts == {i \in 1..Len(str) :
                      MatchesStateSuffix(SubSeq(str, i, Len(str)),
                                         alternatives)}
    IN IF starts = {} THEN str
       ELSE SubSeq(str, 1, (CHOOSE i \in starts :
                                \A k \in starts : i <= k) - 1)

\* str.replace(' ', '-')
Dashed(str) == [i \in 1..Len(str) |-> IF str[i] = " " THEN "-" ELSE str[i]]

UrlCharacter(c) ==
    c \in Digits \cup {"-"} \cup {LowerLetters[k] : k \in 1..Len(LowerLetters)}

\* format_city_for_url (lines 78-108); city_match is what line 90 got from
\* find_best_city_match
format_city_for_url(city_name, city_match) ==
    IF city_match # NoCityMatch THEN city_match.url_format
    ELSE
      LET city_clean == RemoveStateSuffix(
                            RemoveStateSuffix(city_name, StateAbbreviations),
                            StateNames)
          city_formatted == Dashed(Lower(Strip(city_clean)))
      IN SelectSeq(city_formatted, UrlCharacter)

CompareUrlPrefix ==
    <<"h", "t", "t", "p", "s", ":", "/", "/", "w", "w", "w", ".", "n", "e",
      "r", "d", "w", "a", "l", "l", "e", "t", ".", "c", "o", "m", "/", "c",
      "o", "s", "t", "-", "o", "f", "-", "l", "i", "v", "i", "n", "g", "-",
      "c", "a", "l", "c", "u", "l", "a", "t", "o", "r", "/", "c", "o", "m",
      "p", "a", "r", "e", "/">>

Versus == <<"-", "v", "s", "-">>

\* line 131
CompareUrl(current, desired) == CompareUrlPrefix \o current \o Versus \o desired

\* lines 145-148: FirecrawlTools() and scrape_website return the page or
\* raise
ScrapeOutcomes ==
    { [raised |-> FALSE, value |-> "page"],
      [raised |-> TRUE, value |-> "ConnectionError"],
      [raised |-> TRUE, value |-> "ValueError"] }

\* lines 153-169: the text returned with the scraped page
CostData(url, result) == [kind |-> "cost_data", url |-> url, result |-> result]

\* lines 171-180: the text returned when the scrape raised e
UnableToFetch_NoUrl(url, e) == [kind |-> "unable_to_fetch", error |-> e]

UnableToFetch(url, e) ==
    [kind |-> "unable_to_fetch", url |-> url, error |-> e]

\* lines 122-131: the matches, the formatted names and the URL
FormatCities ==
    /\ tool_pc = "l123"
    /\ \E current_match \in find_best_city_match(CITY_DATABASE, current_city),
          desired_match \in find_best_city_match(CITY_DATABASE, desired_city) :
          /\ current_formatted' = format_city_for_url(current_city,
                                                      current_match)
          /\ desired_formatted' = format_city_for_url(desired_city,
                                                      desired_match)
    /\ tool_pc' = "l145"
    /\ UNCHANGED <<apiVars, elVars, coopVars, outVars, current_city, desired_city,
                   CITY_DATABASE, api_key, scrape, query_statuses,
                   all_results, seen_urls, tool_return>>

\* lines 145-180: the scrape, and the text returned when it raises
Scrape ==
    /\ tool_pc = "l145"
    /\ \E outcome \in ScrapeOutcomes :
          LET url == CompareUrl(current_formatted, desired_formatted) IN
          /\ scrape' = outcome
          /\ tool_return' = IF outcome.raised
                            THEN UnableToFetch(url, outcome.value)
                            ELSE CostData(url, outcome.value)
    /\ tool_pc' = "returned"
    /\ UNCHANGED <<apiVars, elVars, coopVars, outVars, current_city, desired_city,
                   CITY_DATABASE, api_key, current_formatted,
                   desired_formatted, query_statuses, all_results, seen_urls>>

\* the cost analyst calls get_cost_of_living_comparison
CostStart ==
    /\ tool_pc = "l123"
    /\ current_city \in CostCities
    /\ desired_city \in CostCities
    /\ CITY_DATABASE \in CityDatabases
    /\ api_key = None
    /\ current_formatted = << >>
    /\ desired_formatted = << >>
    /\ scrape = [raised |-> FALSE, value |-> None]
    /\ query_statuses = << >>
    /\ all_results = << >>
    /\ seen_urls = {}
    /\ tool_return = [kind |-> "none"]

----------------------------------------------------------------------------
(* sub_agents/migration_researcher/tools.py: the Reddit search             *)

\* lines 37-42: the number of queries
NumQueries == 4

\* os.getenv('BRAVE_API_KEY')
ApiKeys == {None, "", "key"}

\* a result the search API lists: a dict with a url, a title and a
\* description (any of which can be missing), or something that is no dict
Malformed == [malformed |-> TRUE]

ResultOne == [url |-> "u1", title |-> "t1", description |-> "d1"]

ResultOneAgain == [url |-> "u1", title |-> "t3", description |-> "d3"]

ResultTwo == [url |-> "u2", title |-> "t2", description |-> "d2"]

ResultNoUrl == [url |-> "", title |-> "t4", description |-> "d4"]

\* data["web"]["results"] of the responses
ResultLists ==
    { << >>, <<ResultOne>>, <<ResultOne, ResultOneAgain>>,
      <<ResultTwo, ResultOne>>, <<ResultNoUrl, ResultTwo>>,
      <<ResultTwo, Malformed, ResultOne>> }

\* how a query can end: a response with a status code (written as text), or
\* requests.get raising
QueryOutcomes ==
    [status : {"200"}, web : {TRUE}, results : ResultLists]
    \cup { [status |-> "200", web |-> FALSE, results |-> << >>],
           [status |-> "401", web |-> FALSE, results |-> << >>],
           [status |-> "429", web |-> FALSE, results |-> << >>],
           [status |-> "500", web |-> FALSE, results |-> << >>],
           [status |-> "Timeout", web |-> FALSE, results |-> << >>],
           [status |-> "Exception", web |-> FALSE, results |-> << >>] }

\* lines 76-87: the loop over the results of one response; result.get on
\* something that is no dict raises, and the except clause of line 100 ends
\* the loop with what was appended before
RECURSIVE Collect(_, _, _)
Collect(results, collected, seen) ==
    IF results = << >> \/ Head(results) = Malformed
    THEN [all_results |-> collected, seen_urls |-> seen]
    ELSE LET result == Head(results)
             url == result.url
         IN IF url # "" /\ url \notin seen
            THEN Collect(Tail(results),
                         Append(collected,
                                [title |-> result.title, url |-> url,
                                 description |-> result.description]),
                         seen \cup {url})
            ELSE Collect(Tail(results), collected, seen)

\* lines 29-45: without a key the tool returns at once
CheckApiKey ==
    /\ tool_pc = "l29"
    /\ IF api_key \in {None, ""}
       THEN /\ tool_return' = [kind |-> "key_not_set"]
            /\ tool_pc' = "returned"
       ELSE /\ tool_pc' = "l49"
            /\ UNCHANGED tool_return
    /\ UNCHANGED <<apiVars, elVars, coopVars, outVars, current_city, desired_city,
                   CITY_DATABASE, api_key, current_formatted,
                   desired_formatted, scrape, query_statuses, all_results,
                   seen_urls>>

\* lines 49-104: one pass of the loop over the queries
Query ==
    /\ tool_pc = "l49"
    /\ \E outcome \in QueryOutcomes :
          LET collected == IF outcome.status = "200" /\ outcome.web
                           THEN Collect(outcome.results, all_results,
                                        seen_urls)
                           ELSE [all_results |-> all_results,
                                 seen_urls |-> seen_urls]
              last == Len(query_statuses) + 1 = NumQueries
          IN /\ query_statuses' = Append(query_statuses, outcome.status)
             /\ all_results' = collected.all_results
             /\ seen_urls' = collected.seen_urls
             /\ IF outcome.status = "401"
                THEN /\ tool_return' = [kind |-> "invalid_key"]
                     /\ tool_pc' = "returned"
                ELSE /\ tool_pc' = IF outcome.status = "429" \/ last
                                   THEN "l107" ELSE "l49"
                     /\ UNCHANGED tool_return
    /\ UNCHANGED <<apiVars, elVars, coopVars, outVars, current_city, desired_city,
                   CITY_DATABASE, api_key, current_formatted,
                   desired_formatted, scrape>>

\* lines 106-150: the note when nothing was collected, else the list of the
\* first 20 results
FormatResults ==
    /\ tool_pc = "l107"
    /\ tool_return' =
          IF all_results = << >>
          THEN [kind |-> "no_results", current_city |-> current_city,
                desired_city |-> desired_city]
          ELSE [kind |-> "results", found |-> Len(all_results),
                listed |-> SubSeq(all_results, 1,
                                  IF Len(all_results) < 20
                                  THEN Len(all_results) ELSE 20)]
    /\ tool_pc' = "returned"
    /\ UNCHANGED <<apiVars, elVars, coopVars, outVars, current_city, desired_city,
                   CITY_DATABASE, api_key, current_formatted,
                   desired_formatted, scrape, query_statuses, all_results,
                   seen_urls>>

\* the migration researcher calls search_reddit_discussions
RedditStart ==
    /\ tool_pc = "l29"
    /\ current_city = CityDallas
    /\ desired_city = CityAustin
    /\ CITY_DATABASE = << >>
    /\ api_key \in ApiKeys
    /\ current_formatted = << >>
    /\ desired_formatted = << >>
    /\ scrape = [raised |-> FALSE, value |-> None]
    /\ query_statuses = << >>
    /\ all_results = << >>
    /\ seen_urls = {}
    /\ tool_return = [kind |-> "none"]

\* a sub-agent calls one of its tools
InitTools ==
    /\ analysis_results = << >>
    /\ tasks = << >>
    /\ response = NoResponse
    /\ reports = NoReportsDir
    /\ OutIdle
    /\ ElIdle
    /\ CoopIdle
    /\ (CostStart \/ RedditStart)

NextTools ==
    \/ FormatCities
    \/ Scrape
    \/ CheckApiKey
    \/ Query
    \/ FormatResults

SpecTools == InitTools /\ [][NextTools]_vars

----------------------------------------------------------------------------
(* sub_agents/schemas.py: the schemas of the structured outputs            *)

\* how many fields of a well-formed output are replaced by other values
MaxChangedFields == 2

\* lines 24-35; every field is declared with Field(...), that is required
CostAnalysis ==
    [overall_cost_difference |-> "str", housing_comparison |-> "str",
     food_comparison |-> "str", transportation_comparison |-> "str",
     taxes_comparison |-> "str", key_insights |-> "List[str]"]

\* lines 38-49
SentimentAnalysis ==
    [overall_sentiment |-> "str", vibe_description |-> "str",
     livability_score |-> "str", alignment_with_preferences |-> "str",
     notable_pros |-> "List[str]", notable_cons |-> "List[str]"]

\* lines 58-83
MigrationInsights ==
    [number_of_sources |-> "int", reddit_insights_included |-> "bool",
     redditor_perspectives |-> "str", featured_quotes |-> "List[Quote]",
     common_reasons_for_moving |-> "List[str]",
     common_challenges |-> "List[str]",
     common_positive_outcomes |-> "List[str]",
     regrets_or_warnings |-> "List[str]", summary |-> "str"]

\* lines 108-140
FinalRecommendation ==
    [recommendation |-> "str", confidence_level |-> "str",
     key_supporting_factors |-> "List[str]", key_concerns |-> "List[str]",
     cost_analysis_report |-> "str", sentiment_analysis_report |-> "str",
     migration_analysis_report |-> "str",
     featured_migration_quotes |-> "List[Quote]", next_steps |-> "List[str]",
     detailed_justification |-> "str"]

\* the schemas bound to the workers and to the team (output_schema=...)
Schemas ==
    { [name |-> "CostAnalysis", fields |-> CostAnalysis],
      [name |-> "SentimentAnalysis", fields |-> SentimentAnalysis],
      [name |-> "MigrationInsights", fields |-> MigrationInsights],
      [name |-> "FinalRecommendation", fields |-> FinalRecommendation] }

ListTypes == {"List[str]", "List[Quote]"}

\* what the output can hold for a field: nothing (the key is missing), null,
\* or a value, of which the model keeps the type and whether it is empty
\* ("" or [])
Absent == [type |-> "absent", empty |-> TRUE]

FieldValues ==
    { Absent, [type |-> "NoneType", empty |-> TRUE] }
    \cup [type : {"str", "List[str]", "List[Quote]"}, empty : BOOLEAN]
    \cup [type : {"int", "bool"}, empty : {FALSE}]

\* a field declared `name: T = Field(...)` accepts a value of type T; an
\* empty list is a list of any item type.  Field(...) states no min_length.
FieldAccepts(type, value) ==
    \/ value.type = type
    \/ value.type \in ListTypes /\ type \in ListTypes /\ value.empty

\* BaseModel validation: every declared field is there and accepted
SchemaAccepts(fields, output) ==
    \A f \in DOMAIN fields : FieldAccepts(fields[f], output[f])

\* an output with a non-empty value of the declared type in every field
WellFormed(fields) ==
    [f \in DOMAIN fields |-> [type |-> fields[f], empty |-> FALSE]]

\* the outputs the model can produce: well-formed ones with up to
\* MaxChangedFields fields replaced
Outputs(fields) ==
    { [f \in DOMAIN fields |->
          IF f \in DOMAIN change THEN change[f] ELSE WellFormed(fields)[f]] :
      change \in UNION { [changed -> FieldValues] :
                           changed \in { c \in SUBSET DOMAIN fields :
                                           Cardinality(c) <= MaxChangedFields } } }

\* the run of an agent with an output_schema: the output is validated; an
\* output that is not accepted is no result
Validate ==
    /\ validated = [state |-> "pending"]
    /\ validated' = IF SchemaAccepts(output_schema.fields, output_content)
                    THEN [state |-> "accepted"]
                    ELSE [state |-> "rejected"]
    /\ UNCHANGED <<apiVars, elVars, coopVars, toolVars, output_schema,
                   output_content, timestamp, filename>>

InitSchema ==
    /\ analysis_results = << >>
    /\ tasks = << >>
    /\ response = NoResponse
    /\ reports = NoReportsDir
    /\ ToolIdle
    /\ ElIdle
    /\ CoopIdle
    /\ output_schema \in Schemas
    /\ output_content \in Outputs(output_schema.fields)
    /\ validated = [state |-> "pending"]
    /\ timestamp = << >>
    /\ filename = << >>

NextSchema == Validate

SpecSchema == InitSchema /\ [][NextSchema]_vars

----------------------------------------------------------------------------
(* 02-agno-router.py, main: the name of the report                         *)

CityStLouis == <<"S", "t", ".", " ", "L", "o", "u", "i", "s">>

CityWinstonSalem ==
    <<"W", "i", "n", "s", "t", "o", "n", "-", "S", "a", "l", "e", "m">>

CityWashingtonDC ==
    <<"W", "a", "s", "h", "i", "n", "g", "t", "o", "n", ",", " ", "D", ".",
      "C", ".">>

RouterSuffix ==
    <<"_", "r", "o", "u", "t", "e", "r", "_", "a", "n", "a", "l", "y", "s",
      "i", "s", ".", "m", "d">>

\* lines 495-520: the profile of the router variant
RouterCities ==
    { CityDallas, CityAustin, CitySanJose, CityStLouis, CityWinstonSalem,
      CityWashingtonDC, CityNewYorkCityNY }

PrimaryConcerns == {"cost", "culture", "experiences"}

RouterProfiles ==
    [kind : {"profile"}, current_city : RouterCities,
     desired_city : RouterCities, primary_concern : PrimaryConcerns]

\* datetime.now().strftime("%Y%m%d_%H%M%S") (line 581), the date and the
\* time of day shortened to one digit each
Timestamps == {StampOne, StampTwo}

\* str.strip('_')
StripUnderscores(str) ==
    LET kept == {i \in 1..Len(str) : str[i] # "_"} IN
    IF kept = {} THEN << >>
    ELSE SubSeq(str, CHOOSE i \in kept : \A k \in kept : i <= k,
                     CHOOSE i \in kept : \A k \in kept : i >= k)

\* lines 576-577: re.sub(r'[^a-z0-9]', '_', city.lower()).strip('_')
city_normalized(city) ==
    LET low == Lower(city) IN
    StripUnderscores(
        [i \in 1..Len(low) |->
            IF low[i] \in Digits
                            \cup {LowerLetters[k] : k \in 1..Len(LowerLetters)}
            THEN low[i] ELSE "_"])

\* line 584
RouterFileName(current, desired, stamp) ==
    city_normalized(current) \o <<"_", "t", "o", "_">>
        \o city_normalized(desired) \o <<"_">> \o stamp \o RouterSuffix

\* lines 576-584: the report is named
NameReport ==
    /\ user_profile # NoProfile
    /\ filename = << >>
    /\ \E stamp \in Timestamps :
          /\ timestamp' = stamp
          /\ filename' = RouterFileName(user_profile.current_city,
                                        user_profile.desired_city, stamp)
    /\ UNCHANGED <<apiVars, elVars, coopVars, toolVars, output_schema,
                   output_content, validated>>

\* main after the router answered (line 567)
InitRouter ==
    /\ ApiStart
    /\ CoopIdle
    /\ variant = None
    /\ el_pc = "idle"
    /\ conversation_history = << >>
    /\ question_count = 0
    /\ question_response = << >>
    /\ comprehensive = FALSE
    /\ loop_exception = None
    /\ returned_at = 0
    /\ user_profile \in RouterProfiles

NextRouter == NameReport

SpecRouter == InitRouter /\ [][NextRouter]_vars

----------------------------------------------------------------------------
(* Claims about the request API                                            *)

TerminalStatuses == {"completed", "failed"}

\* C1: every GET /analysis/{id} response with status "completed" carries a
\* non-null result, and every one with status "failed" a non-null error.
C1_TerminalWithPayload ==
    (response.op = "GET" /\ response.code = 200) =>
        /\ response.status = "completed" => response.result # None
        /\ response.status = "failed" => response.error # None

\* the status changes the lifecycle allows in one step
AllowedStatusStep(old, new) ==
    \/ new = old
    \/ old = "pending" /\ new = "processing"
    \/ old = "processing" /\ new \in TerminalStatuses

\* C2: the status of a record only moves along pending -> processing ->
\* (completed | failed): never backward, never from pending to a terminal
\* value, never out of a terminal value.
C2_StatusOrder ==
    [][\A id \in (DOMAIN analysis_results) \cap (DOMAIN analysis_results') :
          AllowedStatusStep(analysis_results[id].status,
                            analysis_results'[id].status)]_vars

\* C10 (outcome): when the background task of an accepted analysis has ended
\* and the record is in the store, the record is completed with the Decision
\* if both calls returned, and failed with the exception's message if one
\* raised.
C10_TerminalMatchesOutcome ==
    \A i \in 1..Len(tasks) :
        (tasks[i].pc = "done" /\ tasks[i].id \in DOMAIN analysis_results) =>
            LET rec == analysis_results[tasks[i].id] IN
            IF tasks[i].e = None
            THEN rec.status = "completed" /\ rec.result = tasks[i].recommendation
            ELSE rec.status = "failed" /\ rec.error = tasks[i].e

\* C10 (progress): a record in the store is eventually deleted or terminal.
C10_EventuallyTerminal ==
    \A id \in AnalysisIds :
        (id \in DOMAIN analysis_results) ~>
            (id \notin DOMAIN analysis_results
             \/ analysis_results[id].status \in TerminalStatuses)

----------------------------------------------------------------------------
(* Claims about elicitation                                                *)

\* C3: a profile handed to the team passed the completeness predicate and the
\* extraction validation, or is the default (sentinel) profile.
C3_OnlyCompleteProfileHanded ==
    el_pc = "team" =>
        \/ /\ has_comprehensive_info(variant, conversation_history,
                                     question_count)
           /\ ProfileAccepted(variant, user_profile)
        \/ user_profile = DefaultProfile

\* C4: the number of rounds never exceeds max_questions, and once it has
\* reached max_questions no question is asked and no in-loop extraction is
\* made any more: the next step is the final extraction.
C4_TurnBound ==
    /\ question_count <= max_questions(variant)
    /\ question_count = max_questions(variant) =>
           el_pc \in {"l613", "l719", "returned", "team", "crashed"}

C4_Witness ==
    /\ el_pc = "l719"
    /\ question_count = max_questions(variant)
    /\ loop_exception = None

NameDallas == <<"d", "a", "l", "l", "a", "s">>

NameAustin == <<"a", "u", "s", "t", "i", "n">>

\* the texts a transcript can record
Utterances ==
    {DefaultInitialInput, RefusalAnswer, QuestionCity, QuestionKeywords}
        \cup {Strip(raw) : raw \in PredInitialInputs \cup PredAnswerInputs}

\* some recorded text contains one of the terms
Signal(terms) ==
    \E u \in Utterances :
        /\ u # << >>
        /\ Contains(conversation_history, u)
        /\ AnyTerm(terms, Lower(u))

----------------------------------------------------------------------------
(* Claims about the Cooperate protocol                                     *)

\* the agents whose call failed: raised, timed out or gave no content
FailedAgents ==
    {a \in DOMAIN call_outcome : call_outcome[a] \in {"raise", "content_none", "no_content"}}

\* C7: when main has ended and exactly one agent's call failed, the siblings
\* were run and a decision was produced in which the failed agent's finding
\* is marked as not available.
C7_OneFailureStillDecides ==
    (coop_pc \in {"done", "crashed"} /\ Cardinality(FailedAgents) = 1) =>
        /\ started = Agents
        /\ decision.produced
        /\ \A a \in FailedAgents : decision.based_on[a] = NotAvailable

\* C8 (start): once the first agent's call is started, all three calls get
\* started whether or not a call in progress ever ends (unless main has been
\* left by a failure).
C8_SiblingsStartWithoutWaiting ==
    (running = "cost") ~> (started = Agents \/ coop_pc = "crashed")

\* C8 (join): the synthesis starts only after all three calls have ended.
C8_SynthesisAfterJoin ==
    coop_pc \in {"l1084", "done"} =>
        (DOMAIN call_outcome = Agents /\ running = None)

----------------------------------------------------------------------------
(* Further claims about the request API                                    *)

\* C11: a background task whose analysis call has returned a Decision never
\* writes status "failed" to the store (the Decision is kept, the session is
\* not marked failed).
C11_DecisionNeverFailed ==
    [][\A i \in 1..Len(tasks) :
          (tasks[i].recommendation # None /\ tasks[i].pc = "l105") =>
              ~(/\ tasks'[i].pc = "l107"
                /\ tasks[i].id \in DOMAIN analysis_results'
                /\ analysis_results'[tasks[i].id].status = "failed")]_vars

\* C12: a record has status "completed", or a result, only when a background
\* task of that id has had its save_report call return without raising, and
\* a stored result is the Decision whose report that task saved.
C12_CompletedAfterSave ==
    \A id \in DOMAIN analysis_results :
        LET rec == analysis_results[id] IN
        /\ rec.status = "completed" =>
               \E i \in 1..Len(tasks) : tasks[i].id = id /\ tasks[i].saved
        /\ rec.result # None =>
               \E i \in 1..Len(tasks) :
                   /\ tasks[i].id = id
                   /\ tasks[i].saved
                   /\ rec.result = tasks[i].recommendation

\* a poll observes a completed analysis with its result
C12_Witness ==
    /\ response.op = "GET"
    /\ response.code = 200
    /\ response.status = "completed"
    /\ response.result # None
    /\ \E i \in 1..Len(tasks) :
           tasks[i].saved /\ response.result = tasks[i].recommendation

\* C13 (answer): a GET or DELETE of an analysis answers 404 exactly when the
\* id is not in the store, and then leaves the store as it was.
C13_NotFoundIffAbsent ==
    [][(response' # response /\ response'.op \in {"GET", "DELETE"}) =>
          /\ response'.code = 404 <=>
                 response'.analysis_id \notin DOMAIN analysis_results
          /\ response'.code = 404 => analysis_results' = analysis_results]_vars

\* C13 (task): a step of a background task never adds a record to the store.
C13_TaskNeverCreates ==
    [][response' = NoResponse =>
          DOMAIN analysis_results' \subseteq DOMAIN analysis_results]_vars

\* C13 (after delete): an id that was issued and is not in the store has been
\* deleted (a record leaves the store only by a successful DELETE); no step
\* puts such an id in the store again.
C13_DeletedStaysUnknown ==
    [][\A id \in AnalysisIds :
          (/\ id \notin DOMAIN analysis_results
           /\ \E i \in 1..Len(tasks) : tasks[i].id = id) =>
              id \notin DOMAIN analysis_results']_vars

\* C14 (accept): a step that answers 202 has stored a pending record under
\* the id it returns and has added the background task for that id.
C14_AcceptStoresPending ==
    [][(response'.op = "POST" /\ response'.code = 202
            /\ tasks' # tasks) =>
          /\ response'.status = "pending"
          /\ response'.analysis_id \in DOMAIN analysis_results'
          /\ analysis_results'[response'.analysis_id].status = "pending"
          /\ tasks'[Len(tasks')].id = response'.analysis_id
          /\ tasks'[Len(tasks')].pc = "l88"]_vars

\* C14 (record kept): a record leaves the store only by a successful DELETE.
C14_RemovedOnlyByDelete ==
    [][\A id \in DOMAIN analysis_results :
          id \notin DOMAIN analysis_results' =>
              (response'.op = "DELETE" /\ response'.code = 200
                   /\ response'.analysis_id = id)]_vars

\* C14 (task): a background task that has not executed its first statement
\* finds the record of its id in the store.
C14_TaskStartsOnRecord ==
    \A i \in 1..Len(tasks) :
        tasks[i].pc = "l88" => tasks[i].id \in DOMAIN analysis_results

\* the report whose name carries the date and time of day of the id
ReportOf(analysis_id) ==
    {f \in reports.files :
        \E current, desired \in {CityDallas, CityAustin, CitySanJose} :
            \E stamp \in {StampOne, StampTwo} :
                /\ \/ analysis_id = AnalysisPrefix \o stamp
                   \/ StartsWith(analysis_id,
                                 AnalysisPrefix \o stamp \o <<"_">>)
                /\ f = ReportFileName(current, desired, stamp)}

\* C15: GET /report/{analysis_id} answers 404 whenever the reports directory
\* is absent or holds no report for the id, whatever the id is.
C15_NotFoundWhenNoReport ==
    response.op = "REPORT" =>
        ((~reports.exists \/ ReportOf(response.analysis_id) = {}) =>
             response.code = 404)

\* C15 for ids that pass the format test of lines 249-259: 404 whenever the
\* directory is absent or holds no report for the id.
C15_WellFormedNotFound ==
    (response.op = "REPORT" /\ response.code # 400) =>
        ((~reports.exists \/ ReportOf(response.analysis_id) = {}) =>
             response.code = 404)

----------------------------------------------------------------------------
(* Further claims about elicitation                                        *)

\* a location that is not empty and has at most 4 whitespace-separated tokens
PlausibleLocation(city) == city # << >> /\ SplitLen(city) <= 4

\* C16: an in-loop extraction is attempted only below the turn bound; when it
\* raises or yields a profile with an empty or over-long current or desired
\* location, nothing is returned, nothing recorded changes and the next
\* statement is the one that asks a question; a profile the in-loop
\* extraction returns has plausible locations.
C16_FailedExtractionAsksAgain ==
    [][/\ el_pc = "l630" => question_count < max_questions(variant)
       /\ (el_pc = "l630" /\ el_pc' # "l630") =>
              \/ /\ el_pc' = "returned"
                 /\ returned_at' = 649
              \/ /\ el_pc' = "l681"
                 /\ UNCHANGED <<returned_at, user_profile, question_count,
                                conversation_history, loop_exception>>
       /\ returned_at' = 649 =>
              /\ user_profile'.kind = "profile"
              /\ PlausibleLocation(user_profile'.current_city)
              /\ PlausibleLocation(user_profile'.desired_city)]_vars

\* an in-loop extraction has failed and the question statement is next
C16_Witness ==
    /\ el_pc = "l681"
    /\ comprehensive
    /\ returned_at = 0
    /\ question_count < max_questions(variant)

\* C17: what gather_user_information returns is a Profile, and a Profile it
\* returns after the loop was left without a validated one has its locations
\* filled, by the final extraction or by the sentinel values.
C17_ReturnsProfileOrSentinel ==
    returned_at # 0 =>
        /\ user_profile.kind = "profile"
        /\ returned_at \in {728, 738} =>
               /\ user_profile.current_city # << >>
               /\ user_profile.desired_city # << >>

\* C17 (no error): no step of gather_user_information after the first
\* utterance lets an exception out; main fails only on what was returned.
C17_NoErrorPropagated ==
    [][el_pc' = "crashed" => el_pc = "returned"]_vars

\* the text a step added at the end of the transcript
Appended == SubSeq(conversation_history', Len(conversation_history) + 1,
                   Len(conversation_history'))

\* text is one recorded turn: the question just asked and an answer that is
\* not empty
IsOneTurn(text) ==
    LET before == AssistantPrefix \o question_response \o Newline
                      \o UserPrefix
        after  == Newline \o Newline
        answer == SubSeq(text, Len(before) + 1, Len(text) - Len(after))
    IN  /\ Len(text) > Len(before) + Len(after)
        /\ SubSeq(text, 1, Len(before)) = before
        /\ SubSeq(text, Len(text) - Len(after) + 1, Len(text)) = after
        /\ answer # << >>
        /\ Strip(answer) = answer

\* C18: once the transcript is started, a step that changes it keeps what was
\* recorded as a prefix, appends exactly one turn (the question and a
\* non-empty answer) and increases the turn counter by one; the counter
\* changes in no other step.
C18_TranscriptAppendOnly ==
    [][/\ (conversation_history # << >>
            /\ conversation_history' # conversation_history) =>
              /\ Len(conversation_history') > Len(conversation_history)
              /\ SubSeq(conversation_history', 1, Len(conversation_history))
                     = conversation_history
              /\ IsOneTurn(Appended)
              /\ question_count' = question_count + 1
       /\ question_count' # question_count =>
              /\ question_count' = question_count + 1
              /\ conversation_history' # conversation_history]_vars

\* two turns are recorded, one of them with an empty answer
C18_Witness ==
    /\ question_count = 2
    /\ Contains(conversation_history, UserPrefix \o RefusalAnswer)
    /\ Contains(conversation_history, UserPrefix \o Strip(AnswerRich))

----------------------------------------------------------------------------
(* Further claims about the Cooperate protocol                             *)

\* two dicts hold the same results, whatever the order they were stored in
SameResults(d, e) ==
    {d[k] : k \in 1..Len(d)} = {e[k] : k \in 1..Len(e)}

C20_InvalidOutputRetried ==
    \A a \in DOMAIN call_outcome :
        call_outcome[a] = "content_none" =>
            /\ coop_pc # "crashed"
            /\ GetResult(agent_results, a) # None

----------------------------------------------------------------------------
(* Claims about the tools of the sub-agents                                *)

\* every query the Reddit search made ended without a 200 response
EveryQueryFailed ==
    /\ query_statuses # << >>
    /\ \A i \in 1..Len(query_statuses) : query_statuses[i] # "200"

\* the cost tool returned after the scrape raised: the text says the data
\* could not be fetched and carries the attempted URL and the error
ScrapeFailureNoted ==
    (tool_pc = "returned" /\ scrape.raised) =>
        tool_return = [kind |-> "unable_to_fetch",
                       url |-> CompareUrl(current_formatted,
                                          desired_formatted),
                       error |-> scrape.value]

\* C21 (as stated): a failing lookup never aborts the worker: after a raise
\* of the scrape the cost tool returns the unable-to-fetch text with URL and
\* error, and when every Reddit query failed the Reddit search returns the
\* no-results note.
C21_FailedLookupGivesNote ==
    /\ ScrapeFailureNoted
    /\ (tool_pc = "returned" /\ EveryQueryFailed) =>
           tool_return.kind = "no_results"

\* C21 (amended): after a raise of the scrape the cost tool returns the
\* unable-to-fetch text with URL and error; when every Reddit query failed
\* the Reddit search returns the invalid-key error text if a query was
\* answered 401 and the no-results note otherwise, and never a result list.
C21_FailedLookupNeverAborts ==
    /\ ScrapeFailureNoted
    /\ (tool_pc = "returned" /\ EveryQueryFailed) =>
           IF \E i \in 1..Len(query_statuses) : query_statuses[i] = "401"
           THEN tool_return = [kind |-> "invalid_key"]
           ELSE tool_return = [kind |-> "no_results",
                               current_city |-> current_city,
                               desired_city |-> desired_city]

\* all four queries failed, by timeout and otherwise, and the note came out
C21_Witness ==
    /\ tool_pc = "returned"
    /\ Len(query_statuses) = NumQueries
    /\ EveryQueryFailed
    /\ \E i \in 1..NumQueries : query_statuses[i] = "Timeout"
    /\ \E i \in 1..NumQueries : query_statuses[i] = "500"
    /\ tool_return.kind = "no_results"

----------------------------------------------------------------------------
(* Claims about the structured outputs                                     *)

\* C22: every WorkerResult and Decision accepted by schema validation has all
\* of its required fields present and non-empty (no empty string and no
\* empty list); in particular an accepted Decision has non-empty
\* cost_analysis_report, sentiment_analysis_report and
\* migration_analysis_report.
C22_AcceptedFieldsNonEmpty ==
    validated.state = "accepted" =>
        \A f \in DOMAIN output_schema.fields : ~output_content[f].empty

\* every field of an accepted output is present, not null and of the
\* declared type
C22_AcceptedFieldsPresent ==
    validated.state = "accepted" =>
        \A f \in DOMAIN output_schema.fields :
            /\ output_content[f].type \notin {"absent", "NoneType"}
            /\ \/ output_content[f].type = output_schema.fields[f]
               \/ output_content[f].type \in ListTypes /\ output_content[f].empty

\* the whole name is {current}_to_{target}_{timestamp}_analysis.md with
\* collapsed location segments
C23_ReportNameForm ==
    filename # << >> =>
        filename = ReportFileName(user_profile.current_city,
                                  user_profile.desired_city, timestamp)

\* C23: the report filename handed to persistence is
\* {current}_to_{target}_{timestamp}_analysis.md, each location segment the
\* lowercased name with every run of non-alphanumeric characters collapsed
\* to a single underscore, for every pair of location names; here the
\* segments: the name starts with the two collapsed segments joined by _to_.
C23_SegmentsCollapsed ==
    filename # << >> =>
        StartsWith(filename,
                   NormalizeCity(user_profile.current_city)
                       \o <<"_", "t", "o", "_">>
                       \o NormalizeCity(user_profile.desired_city) \o <<"_">>)

\* for names whose non-alphanumeric characters stand alone and inside the
\* name, the segments are the collapsed ones
C23_SingleSeparatorsAgree ==
    (/\ filename # << >>
     /\ user_profile.current_city \in {CityDallas, CitySanJose, CityWinstonSalem}
     /\ user_profile.desired_city \in {CityAustin, CitySanJose, CityWinstonSalem}) =>
        StartsWith(filename,
                   NormalizeCity(user_profile.current_city)
                       \o <<"_", "t", "o", "_">>
                       \o NormalizeCity(user_profile.desired_city) \o <<"_">>)

\* the formatted names the examples are said to give
UrlNewYorkCity ==
    <<"n", "e", "w", "-", "y", "o", "r", "k", "-", "c", "i", "t", "y">>

UrlMiami == <<"m", "i", "a", "m", "i">>

UrlSanFrancisco ==
    <<"s", "a", "n", "-", "f", "r", "a", "n", "c", "i", "s", "c", "o">>

UrlLosAngeles == <<"l", "o", "s", "-", "a", "n", "g", "e", "l", "e", "s">>

UrlFortWorth == <<"f", "o", "r", "t", "-", "w", "o", "r", "t", "h">>

UrlDallas == <<"d", "a", "l", "l", "a", "s">>

\* the cost tool formatted its arguments by the fallback: the city table is
\* empty, so find_best_city_match found nothing
FallbackFormatted == tool_pc = "l145" /\ CITY_DATABASE = << >>

FormatsTo(city, formatted) ==
    /\ current_city = city => current_formatted = formatted
    /\ desired_city = city => desired_formatted = formatted

\* C24: the fallback formatting removes a trailing state abbreviation or full
\* state name and otherwise only lowercases the name and replaces spaces by
\* dashes, leaving a name without a state suffix intact: "New York City, NY"
\* gives "new-york-city", "Miami, FL" gives "miami", "San Francisco" gives
\* "san-francisco" and "Los Angeles, California" gives "los-angeles".
C24_FallbackFormatting ==
    FallbackFormatted =>
        /\ FormatsTo(CityNewYorkCityNY, UrlNewYorkCity)
        /\ FormatsTo(CityMiamiFL, UrlMiami)
        /\ FormatsTo(CitySanFrancisco, UrlSanFrancisco)
        /\ FormatsTo(CityLosAngelesCalifornia, UrlLosAngeles)

\* the examples in which a comma and an abbreviation, or a state name that
\* ends in no abbreviation, follow the city
C24_SeparatedSuffixRemoved ==
    FallbackFormatted =>
        /\ FormatsTo(CityNewYorkCityNY, UrlNewYorkCity)
        /\ FormatsTo(CityMiamiFL, UrlMiami)
        /\ FormatsTo(CityFortWorthTexas, UrlFortWorth)
        /\ FormatsTo(CityNewYorkCity, UrlNewYorkCity)
        /\ FormatsTo(CityDallas, UrlDallas)

\* what the code makes of the two other examples
C24_LettersCutOff ==
    FallbackFormatted =>
        /\ FormatsTo(CitySanFrancisco,
                     SubSeq(UrlSanFrancisco, 1, Len(UrlSanFrancisco) - 2))
        /\ FormatsTo(CityLosAngelesCalifornia,
                     UrlLosAngeles \o <<"-", "c", "a", "l", "i", "f", "o",
                                        "r", "n">>)

\* the text the Reddit search returned lists what was collected, in order,
\* up to 20 entries
ListsCollected ==
    /\ tool_return.kind = "results"
    /\ tool_return.found = Len(all_results)
    /\ tool_return.listed = SubSeq(all_results, 1,
                                   IF Len(all_results) < 20
                                   THEN Len(all_results) ELSE 20)

\* no URL is listed twice
UrlsListedOnce ==
    tool_return.kind = "results" =>
        \A i, j \in 1..Len(tool_return.listed) :
            tool_return.listed[i].url = tool_return.listed[j].url => i = j

\* C25: in search_reddit_discussions a failure of one query (timeout,
\* exception, rate limit or any other non-200 status) never discards what
\* earlier queries collected: the returned text still lists the results
\* gathered so far, each URL at most once.
C25_FailureKeepsCollected ==
    (tool_pc = "returned" /\ all_results # << >>) =>
        ListsCollected /\ UrlsListedOnce

\* the same for every failure but a 401 answer
C25_FailureButInvalidKeyKeeps ==
    (/\ tool_pc = "returned"
     /\ all_results # << >>
     /\ \A i \in 1..Len(query_statuses) : query_statuses[i] # "401") =>
        ListsCollected /\ UrlsListedOnce

\* no pass of the loop takes away or reorders what was collected before
C25_CollectedOnlyGrows ==
    [][/\ Len(all_results') >= Len(all_results)
       /\ \A i \in 1..Len(all_results) : all_results'[i] = all_results[i]]_vars

----------------------------------------------------------------------------
(* Claims about the identity of analyses and the contents of records       *)

\* C26: every accepted POST /analyze gets an analysis_id different from every
\* id already in the store, so accepting a request never overwrites an
\* existing record and no two background tasks ever write to the same record.
C26_AcceptedIdIsFresh ==
    [][(/\ Len(tasks') = Len(tasks) + 1
        /\ response'.op = "POST"
        /\ response'.code = 202) =>
           /\ response'.analysis_id \notin DOMAIN analysis_results
           /\ \A i \in 1..Len(tasks) : tasks[i].id # response'.analysis_id]_vars

\* no two background tasks were started for one id
C26_OneTaskPerRecord ==
    \A i, j \in 1..Len(tasks) : tasks[i].id = tasks[j].id => i = j

\* the analyses that were submitted and the report each of them produced:
\* two of them submitted within one second, from different profiles
ProducedReports ==
    { [id |-> IdOneA,
       report |-> ReportFileName(CityDallas, CityAustin, StampOne)],
      [id |-> IdOneB,
       report |-> ReportFileName(CityAustin, CityDallas, StampOne)],
      [id |-> IdTwo,
       report |-> ReportFileName(CitySanJose, CityAustin, StampTwo)] }

\* C27: GET /report/{analysis_id} returns only the report produced for that
\* analysis: it never returns the report of a different analysis, including
\* one submitted within the same second as the requested one (for the ids
\* of the submitted analyses).
C27_OnlyOwnReport ==
    (/\ response.op = "REPORT"
     /\ response.code = 200
     /\ \E a \in ProducedReports : a.id = response.analysis_id) =>
        \E a \in ProducedReports :
            /\ a.id = response.analysis_id
            /\ a.report = response.content

\* an analysis that was the only one of its second gets its own report
C27_AloneInItsSecond ==
    (response.op = "REPORT" /\ response.code = 200
        /\ response.analysis_id = IdTwo) =>
        response.content = ReportFileName(CitySanJose, CityAustin, StampTwo)

\* for an id that was issued, only a report of the same second is returned
C27_IssuedIdSameSecond ==
    (response.op = "REPORT" /\ response.code = 200
        /\ response.analysis_id \in {IdOneA, IdOneB}) =>
        response.content \in
            { ReportFileName(CityDallas, CityAustin, StampOne),
              ReportFileName(CityAustin, CityDallas, StampOne) }

\* C28: the background task run_analysis contains every failure: it never
\* lets an exception escape, in every interleaving with DELETE /analysis/{id}
\* for the same id (before the task starts, while the analysis runs, or
\* between two of its writes to the record).
C28_NoExceptionEscapes ==
    \A i \in 1..Len(tasks) : tasks[i].pc # "escaped"

\* as long as the record of the task is in the store whenever the task writes,
\* no exception escapes: an escape needs the id to be missing
C28_EscapeOnlyWithoutRecord ==
    [][\A i \in 1..Len(tasks) :
          (tasks[i].pc # "escaped" /\ tasks'[i].pc = "escaped") =>
              tasks[i].id \notin DOMAIN analysis_results]_vars

\* C29: in every reachable state of the store, a record has a non-null result
\* only if its status is completed and a non-null error only if its status
\* is failed; result and error are never both set on the same record.
C29_PayloadMatchesStatus ==
    \A id \in DOMAIN analysis_results :
        LET rec == analysis_results[id] IN
        /\ rec.result # None => rec.status = "completed"
        /\ rec.error # None => rec.status = "failed"
        /\ ~(rec.result # None /\ rec.error # None)

\* the same while no id was given to two requests
C29_WithoutIdReuse ==
    C26_OneTaskPerRecord => C29_PayloadMatchesStatus

----------------------------------------------------------------------------
(* A further claim about the completeness predicate                        *)

\* what the user typed, at the first prompt or as an answer
TypedTexts ==
    {Strip(raw) : raw \in PredInitialInputs \cup PredAnswerInputs} \ {<< >>}

\* some text the user typed is recorded in the transcript as the user's and
\* contains one of the terms
UserSignal(terms) ==
    \E u \in TypedTexts :
        /\ \/ StartsWith(conversation_history, HistoryHeader \o u \o Newline)
           \/ Contains(conversation_history, UserPrefix \o u \o Newline)
        /\ AnyTerm(terms, Lower(u))

\* C30: the completeness predicate can become true only through information
\* the user supplied: keywords that occur solely in the assistant's own
\* questions, combined with answers that contain none of them (such as the
\* recorded refusal sentence), never make a coverage category count as
\* satisfied.
C30_OnlyUserTextCounts ==
    comprehensive =>
        /\ UserSignal(IncomeTerms \cup ExpenseTerms)
        /\ UserSignal(PreferenceTerms)
        /\ UserSignal(LikeTerms \cup DislikeTerms)
        /\ (variant = "cooperation" => UserSignal(PriorityTerms))

\* when every question asked was one without keywords, the predicate is true
\* only through what the user typed, the preference category aside, which
\* the recorded refusal sentence ("prefer") satisfies
C30_PlainQuestionsOnly ==
    (comprehensive /\ ~Contains(conversation_history, QuestionKeywords)) =>
        /\ UserSignal(IncomeTerms \cup ExpenseTerms)
        /\ UserSignal(LikeTerms \cup DislikeTerms)
        /\ (variant = "cooperation" => UserSignal(PriorityTerms))

====
